---- MODULE Spec2Model ----
(***************************************************************************)
(* A model of the agent loop of core/loop.py (AgentLoop.run), of the       *)
(* planner wrapper modules/decision.py (generate_plan) and of the          *)
(* heuristics pipeline heuristics/engine.py that the loop calls.           *)
(*                                                                         *)
(* Texts are finite sequences of symbols.  A symbol is either one          *)
(* character (" ", "NL") or a literal that the code only ever handles as   *)
(* a whole ("FINAL_ANSWER:", "def solve(", a word of the query).  With     *)
(* this reading str.startswith(p) is "the first symbol is p", `p in s` is  *)
(* "some symbol is p", str.strip() drops white symbols at both ends and    *)
(* len() counts symbols.  Where the code looks inside a word (the banned   *)
(* words filter) the word is spelled out, one symbol per character.        *)
(***************************************************************************)
EXTENDS Integers, Sequences, FiniteSets, TLC

\* ------------------------------------------------------------------ bounds
MaxStepsBound == 2
MaxLifelinesBound == 1
MaxSandboxCalls == 2

\* ------------------------------------------------------------- text basics
FINAL == "FINAL_ANSWER:"
FPR == "FURTHER_PROCESSING_REQUIRED:"
SBE == "[sandbox error:"
REDACTED == <<"[", "R", "E", "D", "A", "C", "T", "E", "D", "]">>
DEFSOLVE == "def solve("
FENCE == "<fence>"

White == {" ", "NL"}

RECURSIVE LStripSet(_, _)
LStripSet(t, S) ==
    IF t # <<>> /\ Head(t) \in S THEN LStripSet(Tail(t), S) ELSE t

RECURSIVE RStripSet(_, _)
RStripSet(t, S) ==
    IF t # <<>> /\ t[Len(t)] \in S THEN RStripSet(SubSeq(t, 1, Len(t) - 1), S) ELSE t

\* str.strip(chars)
StripSet(t, S) == RStripSet(LStripSet(t, S), S)

\* str.strip()
Strip(t) == StripSet(t, White)

\* str.startswith(p)
StartsWith(t, p) == Len(t) >= 1 /\ t[1] = p

\* p in s
Contains(t, p) == \E i \in 1..Len(t) : t[i] = p

\* the positions of p in t
Occurrences(t, p) == {i \in 1..Len(t) : t[i] = p}

Min(S) == CHOOSE x \in S : \A y \in S : x <= y

\* s.split(p)[1]: what lies between the first occurrence of p and the next one
\* (or the end of the text).  Only used on texts that contain p.
SplitSecond(t, p) ==
    LET first == Min(Occurrences(t, p))
        later == {i \in Occurrences(t, p) : i > first}
        stop  == IF later = {} THEN Len(t) + 1 ELSE Min(later)
    IN SubSeq(t, first + 1, stop - 1)

\* str.lower() on one symbol
LowerSym(c) ==
    CASE c = "Token" -> "token"
      [] c = "Python" -> "python"
      [] c = "Sum" -> "sum"
      [] c = "A" -> "a"
      [] c = "C" -> "c"
      [] c = "D" -> "d"
      [] c = "E" -> "e"
      [] c = "R" -> "r"
      [] c = "T" -> "t"
      [] OTHER -> c

Lower(t) == [i \in 1..Len(t) |-> LowerSym(t[i])]

\* Optional values: <<>> is None, <<v>> is the value v.
None == <<>>
Some(v) == <<v>>
IsSet(o) == o # <<>>
Get(o) == o[1]

\* --------------------------------------------------------------- heuristics
\* Program constants of heuristics/impl.py
DefaultMinLen == 1
DefaultMaxLen == 10000
LongTextLen == 2000

\* impl.py 47: the default list of banned words, each a text
DefaultBanned == << <<"password">>, <<"apikey">>, <<"token">> >>

\* A unit of the pipeline: id, enabled flag and the parameters of the two
\* configurable units (unused by the others).
Unit(id) ==
    [id |-> id, enabled |-> TRUE, min_len |-> DefaultMinLen,
     max_len |-> DefaultMaxLen, banned |-> DefaultBanned]

\* HeuristicResult(...): flags is a set of <<key, value>> pairs
Result(modified_input, notes, flags, severity) ==
    [modified_input |-> modified_input, notes |-> notes, flags |-> flags,
     severity |-> severity]

\* HeuristicResult() with its defaults
NoResult == Result(None, None, {}, "none")

\* `x in text` for some x of a list
ContainsAny(t, S) == \E i \in 1..Len(t) : t[i] \in S

\* The symbols that stand for a drive-letter-colon-backslash text, and the
\* letter of each.
DrivePaths == {"Z:<backslash>", "C:<backslash>"}
DriveLetter(c) == IF c = "Z:<backslash>" THEN "Z" ELSE "C"
AllowedDrives == {"C", "D", "E", "F", "G", "H", "I", "J", "K", "L", "M", "N", "O"}

InvalidFileDetector_run(h, text) ==
    LET matches == {i \in 1..Len(text) : text[i] \in DrivePaths}
    IN IF matches # {} /\ DriveLetter(text[Min(matches)]) \notin AllowedDrives
       THEN Result(None, Some("Suspicious drive letter detected in query"),
                   {<<"suspicious_path", TRUE>>}, "info")
       ELSE NoResult

\* InputValidationSystem_run with >= in the test of the upper bound
InputValidationSystem_run_TrimsAtBound(h, text) ==
    IF Len(text) < h.min_len
    THEN Result(None, Some("input_too_short"), {}, "error")
    ELSE IF Len(text) >= h.max_len
    THEN Result(Some(SubSeq(text, 1, h.max_len)), Some("input_trimmed"),
                {<<"original_length", Len(text)>>}, "warn")
    ELSE NoResult

InputValidationSystem_run(h, text) ==
    IF Len(text) < h.min_len
    THEN Result(None, Some("input_too_short"), {}, "error")
    ELSE IF Len(text) > h.max_len
    THEN Result(Some(SubSeq(text, 1, h.max_len)), Some("input_trimmed"),
                {<<"original_length", Len(text)>>}, "warn")
    ELSE NoResult

\* re.compile(re.escape(w), re.IGNORECASE) matches t at position i
MatchAt(t, w, i) ==
    /\ i + Len(w) - 1 <= Len(t)
    /\ \A k \in 1..Len(w) : LowerSym(t[i + k - 1]) = LowerSym(w[k])

\* pattern.search(t)
Search(t, w) == \E i \in 1..(Len(t) + 1) : MatchAt(t, w, i)

\* Sub with a pattern that matches letter case exactly
RECURSIVE Sub_CaseSensitive(_, _, _)
Sub_CaseSensitive(t, w, repl) ==
    IF t = <<>> THEN (IF w = <<>> THEN repl ELSE <<>>)
    ELSE IF w = <<>> THEN repl \o <<Head(t)>> \o Sub_CaseSensitive(Tail(t), w, repl)
    ELSE IF Len(w) <= Len(t) /\ SubSeq(t, 1, Len(w)) = w
    THEN repl \o Sub_CaseSensitive(SubSeq(t, Len(w) + 1, Len(t)), w, repl)
    ELSE <<Head(t)>> \o Sub_CaseSensitive(Tail(t), w, repl)

\* pattern.sub(repl, t): the matches are replaced from the left, without
\* overlap
RECURSIVE Sub(_, _, _)
Sub(t, w, repl) ==
    IF t = <<>> THEN (IF w = <<>> THEN repl ELSE <<>>)
    ELSE IF w = <<>> THEN repl \o <<Head(t)>> \o Sub(Tail(t), w, repl)
    ELSE IF MatchAt(t, w, 1)
    THEN repl \o Sub(SubSeq(t, Len(w) + 1, Len(t)), w, repl)
    ELSE <<Head(t)>> \o Sub(Tail(t), w, repl)

\* impl.py 53-57: the loop over the banned words; a word is looked for in the
\* text as it came in and replaced in the text as masked so far
RECURSIVE BannedScan(_, _, _, _)
BannedScan(banned, text, masked, found) ==
    IF banned = <<>> THEN [masked |-> masked, found |-> found]
    ELSE IF Search(text, Head(banned))
    THEN BannedScan(Tail(banned), text, Sub(masked, Head(banned), REDACTED),
                    Append(found, Head(banned)))
    ELSE BannedScan(Tail(banned), text, masked, found)

Mask(text, banned) == BannedScan(banned, text, text, <<>>).masked

\* BannedWordsFilter_run with the banned words deleted instead of masked
BannedWordsFilter_run_Deletes(h, text) ==
    LET found == BannedScan(h.banned, text, text, <<>>).found
    IN IF found # <<>>
       THEN Result(Some(Sub(text, Head(found), <<>>)),
                   Some(<<"banned_terms_masked", found>>),
                   {<<"banned_terms_found", found>>}, "warn")
       ELSE NoResult

BannedWordsFilter_run(h, text) ==
    LET found == BannedScan(h.banned, text, text, <<>>).found
    IN IF found # <<>>
       THEN Result(Some(Mask(text, h.banned)), Some(<<"banned_terms_masked", found>>),
                   {<<"banned_terms_found", found>>}, "warn")
       ELSE NoResult

\* len(re.findall(r"\w+", text)): the runs of word symbols, which white
\* space and punctuation separate
NonWord == White \cup {"[", "]", "{", "}", ","}
WordStart(t, i) == t[i] \notin NonWord /\ (i = 1 \/ t[i - 1] \in NonWord)
WordCount(t) == Cardinality({i \in 1..Len(t) : WordStart(t, i)})

QueryComplexityAnalyzer_run(h, text) ==
    Result(None, Some(<<"complexity_score", WordCount(text)>>),
           {<<"complexity_score", WordCount(text)>>}, "info")

ToolUsageOptimizer_run(h, text) ==
    Result(None, None,
           (IF ContainsAny(Lower(text), {"http://", "https://"})
            THEN {<<"prefer_web_tools", TRUE>>} ELSE {})
           \cup (IF ContainsAny(Lower(text), {"pdf", "document", "doc", "paper"})
                 THEN {<<"prefer_document_tools", TRUE>>} ELSE {}),
           "info")

\* `not ctx.interim_result`: None or the empty text
NoInterim(interim) == ~IsSet(interim) \/ Get(interim) = <<>>

ErrorPatternDetector_run(h, interim) ==
    IF NoInterim(interim) THEN NoResult
    ELSE IF ContainsAny(Lower(Get(interim)),
                        {"timeout", "rate limit", "exceeded max tool calls"})
    THEN Result(None, None, {<<"retry_suggested", TRUE>>}, "warn")
    ELSE NoResult

\* json.loads on a brace-delimited text: members ("k:v" stands for a
\* well-formed one) separated by commas
RECURSIVE JsonMembers(_)
JsonMembers(t) ==
    \/ t = <<"k:v">>
    \/ Len(t) >= 3 /\ t[1] = "k:v" /\ t[2] = "," /\ JsonMembers(SubSeq(t, 3, Len(t)))

JsonLoads(t) ==
    LET inner == Strip(SubSeq(t, 2, Len(t) - 1))
    IN inner = <<>> \/ JsonMembers(inner)

ResponseFormatValidator_run(h, interim) ==
    IF NoInterim(interim) THEN NoResult
    ELSE LET text == Strip(Get(interim))
         IN IF StartsWith(text, "{") /\ Len(text) >= 1 /\ text[Len(text)] = "}"
            THEN IF Len(text) >= 2 /\ JsonLoads(text)
                 THEN Result(None, Some("json_parse_ok"), {}, "info")
                 ELSE Result(None, Some("json_parse_failed"), {}, "warn")
            ELSE NoResult

HistoricalPatternRecognizer_run(h, text) ==
    Result(None, Some("similar_past_query_found"),
           {<<"similar_past_query_found", FALSE>>}, "info")

TimeoutManager_run(h, text) ==
    IF Len(text) > LongTextLen
    THEN Result(None, Some("long_input_detected"),
                {<<"suggest_shorter_timeout", TRUE>>}, "info")
    ELSE NoResult

QueryIntentMatcher_run(h, text) ==
    LET intent ==
            IF ContainsAny(Lower(text), {"price", "cost", "how much"}) THEN Some("ask_price")
            ELSE IF ContainsAny(Lower(text), {"who", "person", "name"}) THEN Some("ask_person")
            ELSE None
    IN IF IsSet(intent)
       THEN Result(None, None, {<<"intent", Get(intent)>>}, "info")
       ELSE NoResult

\* h.run(ctx): ctx.user_input is the working text, ctx.interim_result the
\* interim result (None in pre-query mode).
Heuristic_run(h, text, interim) ==
    CASE h.id = "invalid_file_detector" -> InvalidFileDetector_run(h, text)
      [] h.id = "input_validation_system" -> InputValidationSystem_run(h, text)
      [] h.id = "banned_words_filter" -> BannedWordsFilter_run(h, text)
      [] h.id = "query_complexity_analyzer" -> QueryComplexityAnalyzer_run(h, text)
      [] h.id = "tool_usage_optimizer" -> ToolUsageOptimizer_run(h, text)
      [] h.id = "error_pattern_detector" -> ErrorPatternDetector_run(h, interim)
      [] h.id = "response_format_validator" -> ResponseFormatValidator_run(h, interim)
      [] h.id = "historical_pattern_recognizer" -> HistoricalPatternRecognizer_run(h, text)
      [] h.id = "timeout_manager" -> TimeoutManager_run(h, text)
      [] h.id = "query_intent_matcher" -> QueryIntentMatcher_run(h, text)

\* heuristics_loader.py 22-33: the ids of ID_TO_CLASS
BuiltinIds ==
    { "invalid_file_detector", "input_validation_system", "banned_words_filter",
      "query_complexity_analyzer", "tool_usage_optimizer", "error_pattern_detector",
      "response_format_validator", "historical_pattern_recognizer",
      "timeout_manager", "query_intent_matcher" }

\* base.py 40-41: a unit that does not override run raises
\* NotImplementedError, whose message is the empty text
Raises(h) == h.id \notin BuiltinIds

\* engine.py 31: the entry recorded for a unit that raised
ErrorResult(h) == Result(None, Some(<<"heuristic_error", h.id, "">>), {}, "warn")

\* engine.py 28-31: the call of a unit inside its try block
TryRun(h, text, interim) ==
    IF Raises(h) THEN ErrorResult(h) ELSE Heuristic_run(h, text, interim)

default_heuristics ==
    << Unit("invalid_file_detector"), Unit("input_validation_system"),
       Unit("banned_words_filter"), Unit("query_complexity_analyzer"),
       Unit("tool_usage_optimizer"), Unit("error_pattern_detector"),
       Unit("response_format_validator"), Unit("historical_pattern_recognizer"),
       Unit("timeout_manager"), Unit("query_intent_matcher") >>

\* HeuristicEngine._run: thread the working text through the enabled units.
RECURSIVE Engine_run(_, _, _)
Engine_run(hs, current_input, interim) ==
    IF hs = <<>> THEN current_input
    ELSE IF ~Head(hs).enabled THEN Engine_run(Tail(hs), current_input, interim)
    ELSE LET r == TryRun(Head(hs), current_input, interim)
         IN Engine_run(Tail(hs),
                       IF IsSet(r.modified_input) THEN Get(r.modified_input) ELSE current_input,
                       interim)

run_pre_query(hs, user_input_) == Engine_run(hs, user_input_, None)

run_post_result(hs, user_input_, interim_result) ==
    Engine_run(hs, interim_result, Some(interim_result))


\* ------------------------------------------------------------ generate_plan
\* re.search(r"^\s*(async\s+)?def\s+solve\s*\(", t, re.MULTILINE); the
\* symbol DEFSOLVE stands for a text that "def\s+solve\s*\(" matches.
LineStart(t, i) == i = 1 \/ t[i - 1] = "NL"

BlankFromLineStart(t, j) ==
    \E i \in 1..j : LineStart(t, i) /\ \A k \in i..(j - 1) : t[k] \in White

MatchesSolve(t) ==
    \E j \in 1..Len(t) :
        /\ t[j] = DEFSOLVE
        /\ \/ BlankFromLineStart(t, j)
           \/ \E a \in 1..(j - 2) :
                 /\ t[a] = "async"
                 /\ \A k \in (a + 1)..(j - 1) : t[k] \in White
                 /\ BlankFromLineStart(t, a)

CouldNotGenerate == <<FINAL, " ", "[Could not generate valid solve()]">>
UnknownAnswer == <<FINAL, " ", "[unknown]">>

\* decision.py 66-70: the text of a fenced answer
Unfence(raw) ==
    IF StartsWith(raw, FENCE)
    THEN LET inner == Strip(StripSet(raw, {FENCE}))
         IN IF StartsWith(Lower(inner), "python") THEN Strip(Tail(inner)) ELSE inner
    ELSE raw

\* decision.py 62-81: what generate_plan returns for an answer of the language
\* model, out = [raises |-> BOOLEAN, text |-> the answer].
generate_plan(out) ==
    IF out.raises THEN UnknownAnswer
    ELSE LET raw == Unfence(Strip(out.text))
         IN IF MatchesSolve(raw) THEN raw ELSE CouldNotGenerate

\* ----------------------------------------------------------------- the loop
MaxStepsReached == <<FINAL, " ", "[Max steps reached]">>
ExecutionFailed == <<FINAL, " ", "[Execution failed]">>
SummarizePrompt == <<"prompts/decision_prompt_summarize.txt">>

\* core/strategy.py select_decision_prompt_path: a path that depends on the
\* two configured modes only.
select_decision_prompt_path(planning_mode_, exploration_mode_) ==
    <<"prompts/decision_prompt", planning_mode_, exploration_mode_>>

\* loop.py 116-123: the task-resumption framing around a forwarded payload
Frame(task, forwarded_input) ==
    <<"Original user task:", " ">> \o task \o
    <<"NL", "NL", "Your last tool produced this result:", "NL", "NL">> \o
    forwarded_input \o
    <<"NL", "NL", "If this fully answers the task, return:", "NL",
      FINAL, " ", "your answer", "NL", "NL",
      "Otherwise, return the next FUNCTION_CALL.">>

\* str(result) of a sandbox result that is not a text
Repr(r) == <<"<object>">>

\* f"FINAL_ANSWER: {result}"
AsFinalAnswer(t) == <<FINAL, " ">> \o t

\* The outcome classes of loop.py 92-134, on the stripped text.
IsFinal(t) == StartsWith(t, FINAL)
IsForward(t) == ~IsFinal(t) /\ StartsWith(t, FPR)
IsSandboxError(t) == ~IsFinal(t) /\ ~IsForward(t) /\ StartsWith(t, SBE)

\* loop.py 107: the forwarded content
ForwardContent(t) == Strip(SplitSecond(t, FPR))

\* ReturnsDone without the test for a forward marker inside the text
ReturnsDone_AnySuccess(success, t) == success

\* loop.py 149: an attempt that did not end in a return goes on to a retry
ReturnsDone(success, t) == success /\ ~Contains(t, FPR)

\* ------------------------------------------------------------------ inputs
UserInputs == { <<"add", " ", "2", " ", "3">>, <<"my", " ", "Token">> }

EngineConfigs == { default_heuristics, <<>> }

PlanningModes == { "conservative", "exploratory" }

Servers == { "math", "idle" }

\* core/session.py MultiMCP.get_tools_from_servers: the tools the selected
\* servers offer (a server may offer none).
ServerTools(s) == IF s = "math" THEN {"add"} ELSE {}

get_tools_from_servers(selected_servers) ==
    UNION { ServerTools(s) : s \in selected_servers }

\* What the language model may answer (or it raises).
ModelOutputs ==
    { [raises |-> FALSE, text |-> <<DEFSOLVE, "return">>],
      [raises |-> FALSE, text |-> <<FENCE, "Python", "NL", "async", " ", DEFSOLVE, "NL", FENCE>>],
      [raises |-> FALSE, text |-> <<"call", " ", DEFSOLVE>>],
      [raises |-> FALSE, text |-> <<FINAL, " ", "42">>],
      [raises |-> TRUE, text |-> <<>>] }

\* What the sandbox may return: a text or some other object.
SandboxResults ==
    { [isstr |-> TRUE, text |-> <<FINAL, " ", "42">>],
      [isstr |-> TRUE, text |-> <<" ", FINAL, " ", "49", "NL">>],
      [isstr |-> TRUE, text |-> <<FPR, " ", "7">>],
      [isstr |-> TRUE, text |-> <<FPR, " ", "Token", " ", FPR, " ", "8">>],
      [isstr |-> TRUE, text |-> <<SBE, " ", "boom]">>],
      [isstr |-> TRUE, text |-> <<"5">>],
      [isstr |-> TRUE, text |-> <<"see", " ", FPR, " ", "9">>],
      [isstr |-> FALSE, text |-> <<>>] }

VARIABLES
    pc,                      \* where AgentLoop.run stands
    step,                    \* the loop variable of `for step in range(max_steps)`
    lifelines_left,
    user_input_override,     \* context.user_input_override (None until a forward)
    final_answer,            \* context.final_answer
    subtasks,                \* the subtask records of the context
    memory,                  \* the tool outputs added to the session memory
    ret,                     \* the value run returned
    user_input,              \* context.user_input
    max_steps,               \* strategy.max_steps
    max_lifelines_per_step,  \* strategy.max_lifelines_per_step
    planning_mode,           \* strategy.planning_mode
    heuristics,              \* the units of the engine loaded at line 33
    current_input,           \* the text handed to perception
    selected_tools,
    prompt_path,             \* the prompt handed to generate_plan
    current_user_input,      \* the text handed to generate_plan
    plan,
    result,                  \* the last sandbox result
    attempts,                \* attempts begun in the current step
    perception_calls,
    plan_calls,
    sandbox_calls,
    lifelines_used,          \* lifelines consumed so far in the run
    eng,                     \* a HeuristicEngine and the run of its pipeline
    hist                     \* the history index on disk and a HistoryRetriever

\* What run is configured with, and the two components modelled on their own
\* further down, which run does not write.
config == <<user_input, max_steps, max_lifelines_per_step, planning_mode, heuristics,
            eng, hist>>
calls == <<current_input, selected_tools, prompt_path, current_user_input, plan, result>>
counters == <<attempts, perception_calls, plan_calls, sandbox_calls, lifelines_used>>
context == <<user_input_override, final_answer, subtasks, memory>>
vars == <<pc, step, lifelines_left, ret, context, config, calls, counters>>

ExplorationMode == "parallel"

\* A HeuristicEngine not yet constructed: the units, the context of the run
\* (user_input, interim_result), the position of the generator _enabled in the
\* list, the working text, the results so far, the calls of h.run made so far
\* and the value _run returned.
EngineNew ==
    [pc |-> "new", file |-> None, heuristics |-> <<>>, user_input |-> <<>>,
     interim_result |-> None, pos |-> 1, current_input |-> <<>>,
     results |-> <<>>, invoked |-> <<>>, ret |-> None]

\* The engine and the index while the model follows the loop alone.
EngineIdle == [EngineNew EXCEPT !.pc = "idle"]

\* The index directory and a HistoryRetriever not yet constructed: the two
\* files (None when absent), the builds made so far, the fields X, meta and
\* faiss_idx of the retriever, the hash seed of its process, and of the last
\* retrieve: the query embedding, top_k, the rows it took and what it returned.
\* Of the last build: the files of the memory directory it walked, the hash
\* seed of its process and whether it raised; of the last retrieve also the
\* query text.
HistoryNew(npz) ==
    [pc |-> "disk", npz |-> npz, faiss_file |-> None, builds |-> 0,
     X |-> <<>>, meta |-> <<>>, faiss_idx |-> None, seed |-> 0,
     q |-> <<>>, top_k |-> 0, rows |-> <<>>, ret |-> <<>>,
     files |-> <<>>, build_seed |-> 0, build_raised |-> FALSE, query |-> <<>>]

HistoryIdle == [HistoryNew(None) EXCEPT !.pc = "idle"]

\* The state when run is entered: the for loop has not yet produced its first
\* index (step = -1) and the locals hold nothing yet.
Init ==
    /\ pc = "for"
    /\ step = -1
    /\ lifelines_left = 0
    /\ user_input_override = None
    /\ final_answer = None
    /\ subtasks = <<>>
    /\ memory = <<>>
    /\ ret = None
    /\ user_input \in UserInputs
    /\ max_steps \in 1..MaxStepsBound
    /\ max_lifelines_per_step \in 0..MaxLifelinesBound
    /\ planning_mode \in PlanningModes
    /\ heuristics \in EngineConfigs
    /\ current_input = <<>>
    /\ selected_tools = {}
    /\ prompt_path = None
    /\ current_user_input = <<>>
    /\ plan = <<>>
    /\ result = [isstr |-> FALSE, text |-> <<>>]
    /\ attempts = 0
    /\ perception_calls = 0
    /\ plan_calls = 0
    /\ sandbox_calls = 0
    /\ lifelines_used = 0
    /\ eng = EngineIdle
    /\ hist = HistoryIdle


\* core/context.py AgentContext.log_subtask: append a record
log_subtask(log, tool_name, status) ==
    Append(log, [tool_name |-> tool_name, status |-> status])

\* core/context.py AgentContext.update_subtask_status: advance the latest
\* record of the tool
update_subtask_status(log, tool_name, status) ==
    LET named == {i \in 1..Len(log) : log[i].tool_name = tool_name}
    IN IF named = {} THEN log
       ELSE LET last == CHOOSE i \in named : \A j \in named : j <= i
            IN [log EXCEPT ![last].status = status]

\* modules/memory.py add_tool_output
add_tool_output(mem, tool_name, success) ==
    Append(mem, [tool_name |-> tool_name, success |-> success])

\* loop.py 42-45 and 72: `user_input_override or self.context.user_input`
Truthy(o) == IsSet(o) /\ Get(o) # <<>>
InputText == IF Truthy(user_input_override) THEN Get(user_input_override) ELSE user_input

\* ChosenPrompt without lines 68-69
ChosenPrompt_ModeOnly == select_decision_prompt_path(planning_mode, ExplorationMode)

\* loop.py 61-69
ChosenPrompt ==
    IF Truthy(user_input_override)
    THEN SummarizePrompt
    ELSE select_decision_prompt_path(planning_mode, ExplorationMode)

Done(text) == Some([status |-> "done", result |-> text])

\* ForStep without line 38: the step inherits the counter of the previous one
ForStep_KeepsLifelines ==
    /\ pc = "for"
    /\ step + 1 < max_steps
    /\ step' = step + 1
    /\ attempts' = 0
    /\ pc' = "while"
    /\ UNCHANGED <<lifelines_left, ret, context, config, calls, perception_calls,
                   plan_calls, sandbox_calls, lifelines_used>>

\* loop.py 35-38: the next iteration of the for loop
ForStep ==
    /\ pc = "for"
    /\ step + 1 < max_steps
    /\ step' = step + 1
    /\ lifelines_left' = max_lifelines_per_step
    /\ attempts' = 0
    /\ pc' = "while"
    /\ UNCHANGED <<ret, context, config, calls, perception_calls, plan_calls,
                   sandbox_calls, lifelines_used>>

\* MaxSteps without line 161: the answer of the last failed attempt is returned
MaxSteps_StaleAnswer ==
    /\ pc = "for"
    /\ step + 1 >= max_steps
    /\ ret' = Done(IF IsSet(final_answer) THEN Get(final_answer) ELSE MaxStepsReached)
    /\ pc' = "returned"
    /\ UNCHANGED <<step, lifelines_left, context, config, calls, counters>>

\* loop.py 160-162: the for loop is exhausted
MaxSteps ==
    /\ pc = "for"
    /\ step + 1 >= max_steps
    /\ final_answer' = Some(MaxStepsReached)
    /\ ret' = Done(MaxStepsReached)
    /\ pc' = "returned"
    /\ UNCHANGED <<step, lifelines_left, user_input_override, subtasks, memory,
                   config, calls, counters>>

\* loop.py 40-49: an attempt begins; pre-query heuristics, then the call of
\* run_perception
BeginAttempt ==
    /\ pc = "while"
    /\ lifelines_left >= 0
    /\ current_input' = run_pre_query(heuristics, InputText)
    /\ attempts' = attempts + 1
    /\ perception_calls' = perception_calls + 1
    /\ pc' = "perception"
    /\ UNCHANGED <<step, lifelines_left, ret, context, config, selected_tools,
                   prompt_path, current_user_input, plan, result, plan_calls,
                   sandbox_calls, lifelines_used>>

\* loop.py 40: the lifelines of the step are spent
LifelinesSpent ==
    /\ pc = "while"
    /\ lifelines_left < 0
    /\ pc' = "for"
    /\ UNCHANGED <<step, lifelines_left, ret, context, config, calls, counters>>

\* PerceptionReturns with the planner given the text the pre-query heuristics
\* returned
PerceptionReturns_PlansRewritten(selected_servers) ==
    /\ pc = "perception"
    /\ selected_tools' = get_tools_from_servers(selected_servers)
    /\ IF selected_tools' = {}
       THEN /\ pc' = "for"
            /\ UNCHANGED <<prompt_path, current_user_input, plan_calls>>
       ELSE /\ prompt_path' = Some(ChosenPrompt)
            /\ current_user_input' = current_input
            /\ plan_calls' = plan_calls + 1
            /\ pc' = "plan"
    /\ UNCHANGED <<step, lifelines_left, ret, context, config, current_input,
                   plan, result, attempts, perception_calls, sandbox_calls,
                   lifelines_used>>

\* PerceptionReturns with `continue` in place of `break` and a lifeline taken
PerceptionReturns_Retries(selected_servers) ==
    /\ pc = "perception"
    /\ selected_tools' = get_tools_from_servers(selected_servers)
    /\ IF selected_tools' = {}
       THEN /\ pc' = "while"
            /\ lifelines_left' = lifelines_left - 1
            /\ lifelines_used' = lifelines_used + 1
            /\ UNCHANGED <<prompt_path, current_user_input, plan_calls>>
       ELSE /\ prompt_path' = Some(ChosenPrompt)
            /\ current_user_input' = InputText
            /\ plan_calls' = plan_calls + 1
            /\ pc' = "plan"
            /\ UNCHANGED <<lifelines_left, lifelines_used>>
    /\ UNCHANGED <<step, ret, context, config, current_input,
                   plan, result, attempts, perception_calls, sandbox_calls>>

\* loop.py 49-81: run_perception returns; no tools aborts the step, else
\* generate_plan is called
PerceptionReturns(selected_servers) ==
    /\ pc = "perception"
    /\ selected_tools' = get_tools_from_servers(selected_servers)
    /\ IF selected_tools' = {}
       THEN /\ pc' = "for"
            /\ UNCHANGED <<prompt_path, current_user_input, plan_calls>>
       ELSE /\ prompt_path' = Some(ChosenPrompt)
            /\ current_user_input' = InputText
            /\ plan_calls' = plan_calls + 1
            /\ pc' = "plan"
    /\ UNCHANGED <<step, lifelines_left, ret, context, config, current_input,
                   plan, result, attempts, perception_calls, sandbox_calls,
                   lifelines_used>>

\* loop.py 49: run_perception raises and run has no handler
PerceptionRaises ==
    /\ pc = "perception"
    /\ pc' = "raised"
    /\ UNCHANGED <<step, lifelines_left, ret, context, config, calls, counters>>

\* PlanReturns without the test of line 85: every plan goes to the sandbox
PlanReturns_RunsAnyPlan(out) ==
    /\ pc = "plan"
    /\ plan' = generate_plan(out)
    /\ sandbox_calls < MaxSandboxCalls
    /\ subtasks' = log_subtask(subtasks, "solve_sandbox", "pending")
    /\ sandbox_calls' = sandbox_calls + 1
    /\ pc' = "sandbox"
    /\ UNCHANGED <<step, lifelines_left, lifelines_used, ret, user_input_override,
                   final_answer, memory, config, current_input, selected_tools,
                   prompt_path, current_user_input, result, attempts,
                   perception_calls, plan_calls>>

\* PlanReturns with an invalid plan logged as a subtask like a valid one
PlanReturns_LogsInvalid(out) ==
    /\ pc = "plan"
    /\ plan' = generate_plan(out)
    /\ subtasks' = log_subtask(subtasks, "solve_sandbox", "pending")
    /\ IF MatchesSolve(plan')
       THEN /\ sandbox_calls < MaxSandboxCalls
            /\ sandbox_calls' = sandbox_calls + 1
            /\ pc' = "sandbox"
            /\ UNCHANGED <<lifelines_left, lifelines_used>>
       ELSE /\ lifelines_left' = lifelines_left - 1
            /\ lifelines_used' = lifelines_used + 1
            /\ pc' = "while"
            /\ UNCHANGED sandbox_calls
    /\ UNCHANGED <<step, ret, user_input_override, final_answer, memory, config,
                   current_input, selected_tools, prompt_path, current_user_input,
                   result, attempts, perception_calls, plan_calls>>

\* loop.py 73-89 and 155-158: generate_plan returns; a solve() plan is logged
\* and sent to the sandbox, any other plan costs a lifeline
PlanReturns(out) ==
    /\ pc = "plan"
    /\ plan' = generate_plan(out)
    /\ IF MatchesSolve(plan')
       THEN /\ sandbox_calls < MaxSandboxCalls    \* the bound of the model
            /\ subtasks' = log_subtask(subtasks, "solve_sandbox", "pending")
            /\ sandbox_calls' = sandbox_calls + 1
            /\ pc' = "sandbox"
            /\ UNCHANGED <<lifelines_left, lifelines_used>>
       ELSE /\ lifelines_left' = lifelines_left - 1
            /\ lifelines_used' = lifelines_used + 1
            /\ pc' = "while"
            /\ UNCHANGED <<subtasks, sandbox_calls>>
    /\ UNCHANGED <<step, ret, user_input_override, final_answer, memory, config,
                   current_input, selected_tools, prompt_path, current_user_input,
                   result, attempts, perception_calls, plan_calls>>

\* decision.py 39 and 55: load_prompt or the template's format raises outside
\* the try block, and run (loop.py 73) has no handler
PlanRaises ==
    /\ pc = "plan"
    /\ pc' = "raised"
    /\ UNCHANGED <<step, lifelines_left, ret, context, config, calls, counters>>

\* SandboxFinal without its return: the answer is recorded and the loop goes on
SandboxFinal_NoReturn(text) ==
    /\ final_answer' = Some(text)
    /\ subtasks' = update_subtask_status(subtasks, "solve_sandbox", "success")
    /\ memory' = add_tool_output(memory, "solve_sandbox", TRUE)
    /\ lifelines_left' = lifelines_left - 1
    /\ lifelines_used' = lifelines_used + 1
    /\ pc' = "while"
    /\ UNCHANGED <<ret, user_input_override>>

\* loop.py 94-105
SandboxFinal(text) ==
    /\ final_answer' = Some(text)
    /\ subtasks' = update_subtask_status(subtasks, "solve_sandbox", "success")
    /\ memory' = add_tool_output(memory, "solve_sandbox", TRUE)
    /\ ret' = Done(text)
    /\ pc' = "returned"
    /\ UNCHANGED <<lifelines_left, lifelines_used, user_input_override>>

\* SandboxForward with the framing built around the text of the attempt, so
\* that a second forward wraps the first override
SandboxForward_Nests(text) ==
    /\ user_input_override' =
           Some(Frame(InputText,
                      run_post_result(heuristics, user_input, ForwardContent(text))))
    /\ pc' = "for"
    /\ UNCHANGED <<lifelines_left, lifelines_used, final_answer, subtasks, memory, ret>>

\* SandboxForward as a retry: the forward costs a lifeline and the step goes on
SandboxForward_CostsLifeline(text) ==
    /\ user_input_override' =
           Some(Frame(user_input,
                      run_post_result(heuristics, user_input, ForwardContent(text))))
    /\ lifelines_left' = lifelines_left - 1
    /\ lifelines_used' = lifelines_used + 1
    /\ pc' = "while"
    /\ UNCHANGED <<final_answer, subtasks, memory, ret>>

\* loop.py 106-126
SandboxForward(text) ==
    /\ user_input_override' =
           Some(Frame(user_input,
                      run_post_result(heuristics, user_input, ForwardContent(text))))
    /\ pc' = "for"
    /\ UNCHANGED <<lifelines_left, lifelines_used, final_answer, subtasks, memory, ret>>

\* SandboxOther with the retry forgetting to consume the lifeline
SandboxOther_FreeRetry(text, success, answer) ==
    /\ final_answer' = Some(answer)
    /\ subtasks' = update_subtask_status(subtasks, "solve_sandbox",
                                         IF success THEN "success" ELSE "failure")
    /\ memory' = add_tool_output(memory, "solve_sandbox", success)
    /\ IF success /\ ~Contains(text, FPR)
       THEN /\ ret' = Done(answer)
            /\ pc' = "returned"
       ELSE /\ pc' = "while"
            /\ UNCHANGED ret
    /\ UNCHANGED <<lifelines_left, lifelines_used, user_input_override>>

\* loop.py 127-154: the other outcomes, with the answer and the success flag
\* that lines 127-134 gave them
SandboxOther(text, success, answer) ==
    /\ final_answer' = Some(answer)
    /\ subtasks' = update_subtask_status(subtasks, "solve_sandbox",
                                         IF success THEN "success" ELSE "failure")
    /\ memory' = add_tool_output(memory, "solve_sandbox", success)
    /\ IF ReturnsDone(success, text)
       THEN /\ ret' = Done(answer)
            /\ pc' = "returned"
            /\ UNCHANGED <<lifelines_left, lifelines_used>>
       ELSE /\ lifelines_left' = lifelines_left - 1
            /\ lifelines_used' = lifelines_used + 1
            /\ pc' = "while"
            /\ UNCHANGED ret
    /\ UNCHANGED user_input_override

\* loop.py 89-154: run_python_sandbox returns
SandboxReturns(res) ==
    /\ pc = "sandbox"
    /\ result' = IF res.isstr THEN [res EXCEPT !.text = Strip(res.text)] ELSE res
    /\ LET text == result'.text
       IN IF ~res.isstr THEN SandboxOther(text, FALSE, AsFinalAnswer(Repr(res)))
          ELSE IF IsFinal(text) THEN SandboxFinal(text)
          ELSE IF IsForward(text) THEN SandboxForward(text)
          ELSE IF IsSandboxError(text) THEN SandboxOther(text, FALSE, ExecutionFailed)
          ELSE SandboxOther(text, TRUE, AsFinalAnswer(text))
    /\ UNCHANGED <<step, config, current_input, selected_tools, prompt_path,
                   current_user_input, plan, attempts, perception_calls,
                   plan_calls, sandbox_calls>>

\* loop.py 89: run_python_sandbox raises and run has no handler
SandboxRaises ==
    /\ pc = "sandbox"
    /\ pc' = "raised"
    /\ UNCHANGED <<step, lifelines_left, ret, context, config, calls, counters>>

Next ==
    \/ ForStep
    \/ MaxSteps
    \/ BeginAttempt
    \/ LifelinesSpent
    \/ \E selected_servers \in SUBSET Servers : PerceptionReturns(selected_servers)
    \/ PerceptionRaises
    \/ \E out \in ModelOutputs : PlanReturns(out)
    \/ PlanRaises
    \/ \E res \in SandboxResults : SandboxReturns(res)
    \/ SandboxRaises

Spec == Init /\ [][Next]_vars

\* Cancel with the cancellation handled like a failed execution: a terminal
\* answer is committed and the pending record closed
Cancel_AsFailure ==
    /\ pc \in {"perception", "plan", "sandbox"}
    /\ final_answer' = Some(ExecutionFailed)
    /\ subtasks' = update_subtask_status(subtasks, "solve_sandbox", "failure")
    /\ pc' = "cancelled"
    /\ UNCHANGED <<step, lifelines_left, ret, user_input_override, memory,
                   config, calls, counters>>

\* loop.py 49, 73, 89: the task is cancelled while run is suspended in one of
\* its three awaits.  asyncio.CancelledError is not an Exception, so the
\* `except Exception` of decision.py 79 lets it pass, and run has no handler
\* and no finally clause: the error leaves run with the state as it stands.
Cancel ==
    /\ pc \in {"perception", "plan", "sandbox"}
    /\ pc' = "cancelled"
    /\ UNCHANGED <<step, lifelines_left, ret, context, config, calls, counters>>

NextCancel == Next \/ Cancel

\* The run under a scheduler that may cancel it.
SpecCancel == Init /\ [][NextCancel]_vars


\* ------------------------------------------------------------- the pipeline
\* The loop at rest, while the model follows the engine or the index alone.
LoopIdle ==
    /\ pc = "idle"
    /\ step = -1
    /\ lifelines_left = 0
    /\ user_input_override = None
    /\ final_answer = None
    /\ subtasks = <<>>
    /\ memory = <<>>
    /\ ret = None
    /\ user_input = <<>>
    /\ max_steps = 1
    /\ max_lifelines_per_step = 0
    /\ planning_mode = "conservative"
    /\ heuristics = <<>>
    /\ current_input = <<>>
    /\ selected_tools = {}
    /\ prompt_path = None
    /\ current_user_input = <<>>
    /\ plan = <<>>
    /\ result = [isstr |-> FALSE, text |-> <<>>]
    /\ attempts = 0
    /\ perception_calls = 0
    /\ plan_calls = 0
    /\ sandbox_calls = 0
    /\ lifelines_used = 0

loop_vars ==
    <<pc, step, lifelines_left, ret, user_input_override, final_answer, subtasks,
      memory, user_input, max_steps, max_lifelines_per_step, planning_mode,
      heuristics, calls, counters>>

\* The length of the texts the pipeline is run on.
MaxTextLen == 3

EngineAlphabet == {"E", "d", " ", "Token"}

\* Every text of at most n symbols of the alphabet
Texts(n) == UNION {[1..k -> EngineAlphabet] : k \in 0..n}

\* Texts that the units which look for a literal react to
SpecialTexts ==
    { <<"{", "k:v", "}">>, <<"{", "k:v", ",", "}">>, <<"timeout">>,
      <<"Z:<backslash>", "doc">>, <<"https://", " ", "price">> }

EngineTexts == Texts(MaxTextLen) \cup SpecialTexts

\* cls(**params): a unit with some of its fields given
Configured(id, params) == params @@ Unit(id)

\* Two configured lists of banned words: "ed" and "d e", and "d e" and "dd"
WordList == << <<"e", "d">>, <<"d", " ", "e">> >>
OtherWordList == << <<"d", " ", "e">>, <<"d", "d">> >>

\* Pipelines as a caller of HeuristicEngine(heuristics=[...]) may build them:
\* with configured units, with units of the base class (whose run raises) and
\* with disabled units.
ConstructedPipelines ==
    { default_heuristics,
      << Configured("banned_words_filter", [banned |-> WordList]),
         Unit("query_complexity_analyzer") >>,
      << Configured("banned_words_filter", [banned |-> OtherWordList]),
         Unit("query_complexity_analyzer") >>,
      << Configured("input_validation_system", [min_len |-> 1, max_len |-> 2]),
         Unit("query_complexity_analyzer") >>,
      << Configured("input_validation_system", [min_len |-> 3, max_len |-> 1]) >>,
      << Unit("custom"), Unit("banned_words_filter"),
         Unit("query_complexity_analyzer") >>,
      << Configured("input_validation_system", [min_len |-> 0, max_len |-> 1]),
         Unit("custom"), Unit("custom") >>,
      << Configured("banned_words_filter", [enabled |-> FALSE]),
         Configured("custom", [enabled |-> FALSE]),
         Configured("input_validation_system", [min_len |-> 1, max_len |-> 2]),
         Configured("query_complexity_analyzer", [enabled |-> FALSE]),
         Unit("query_complexity_analyzer") >>,
      <<>> }

\* ------------------------------------------------------ the configuration
\* A configuration file: whether open() succeeds, whether yaml.safe_load
\* parses it, and the document it holds: nothing (an empty file), a scalar or
\* a mapping with some of the keys enabled, pre_query and post_result.
File(readable, parses, data) == [readable |-> readable, parses |-> parses, data |-> data]

Mapping(keys, enabled, pre_query, post_result) ==
    [kind |-> "mapping", keys |-> keys, enabled |-> enabled,
     pre_query |-> pre_query, post_result |-> post_result]

NoDocument == [Mapping({}, TRUE, <<>>, <<>>) EXCEPT !.kind = "none"]
ScalarDocument == [Mapping({}, TRUE, <<>>, <<>>) EXCEPT !.kind = "scalar"]

\* An entry of pre_query or post_result: a mapping with an id, an enabled
\* flag and parameters, or a scalar
Section(id, enabled, params) ==
    [ismap |-> TRUE, id |-> id, enabled |-> enabled, params |-> params]

ScalarSection == [Section("", TRUE, <<>>) EXCEPT !.ismap = FALSE]

ConfigFiles ==
    { File(FALSE, FALSE, NoDocument),
      File(TRUE, FALSE, NoDocument),
      File(TRUE, TRUE, NoDocument),
      File(TRUE, TRUE, ScalarDocument),
      File(TRUE, TRUE, Mapping({"enabled"}, TRUE, <<>>, <<>>)),
      File(TRUE, TRUE,
           Mapping({"enabled", "pre_query"}, FALSE,
                   <<Section("banned_words_filter", TRUE, <<>>)>>, <<>>)),
      File(TRUE, TRUE,
           Mapping({"pre_query", "post_result"}, TRUE,
                   <<Section("banned_words_filter", TRUE, [banned |-> WordList]),
                     Section("no_such_unit", TRUE, <<>>)>>,
                   <<Section("response_format_validator", TRUE, <<>>)>>)),
      File(TRUE, TRUE,
           Mapping({"pre_query"}, TRUE, <<Section("no_such_unit", TRUE, <<>>)>>, <<>>)),
      File(TRUE, TRUE,
           Mapping({"pre_query"}, TRUE,
                   <<Section("timeout_manager", TRUE, <<>>), ScalarSection>>, <<>>)),
      File(TRUE, TRUE,
           Mapping({"post_result"}, TRUE, <<>>,
                   <<Section("input_validation_system", TRUE, [max_len |-> 0])>>)),
      File(TRUE, TRUE,
           Mapping({"pre_query"}, TRUE,
                   <<Section("timeout_manager", FALSE, <<>>),
                     Section("input_validation_system", TRUE,
                             [min_len |-> 3, max_len |-> 1])>>, <<>>)) }

\* impl.py 30-31: the constraints of the fields (ge=0, ge=1), which the
\* constructor of a unit enforces
ValidParams(params) ==
    /\ "min_len" \in DOMAIN params => params.min_len >= 0
    /\ "max_len" \in DOMAIN params => params.max_len >= 1

\* What load_engine_from_config does: it returns an engine with these units,
\* or an exception leaves it.
Loaded(units) == [raised |-> FALSE, heuristics |-> units]
LoadRaised == [raised |-> TRUE, heuristics |-> <<>>]

\* heuristics_loader.py 50-58: the loop over the entries
RECURSIVE LoadSections(_, _)
LoadSections(sections, units) ==
    IF sections = <<>> THEN Loaded(units)
    ELSE LET section == Head(sections)
         IN IF ~section.ismap THEN LoadRaised
            ELSE IF ~section.enabled THEN LoadSections(Tail(sections), units)
            ELSE IF section.id \notin BuiltinIds THEN LoadSections(Tail(sections), units)
            ELSE IF ~ValidParams(section.params) THEN LoadRaised
            ELSE LoadSections(Tail(sections),
                              Append(units, Configured(section.id, section.params)))

\* heuristics_loader.py 36-63
load_engine_from_config(file) ==
    IF ~file.readable \/ ~file.parses THEN Loaded(default_heuristics)
    ELSE LET data == file.data
         IN IF data.kind = "none" \/ (data.kind = "mapping" /\ data.keys = {})
            THEN Loaded(<<>>)
            ELSE IF data.kind # "mapping" THEN LoadRaised
            ELSE IF "enabled" \in data.keys /\ ~data.enabled THEN Loaded(<<>>)
            ELSE LET pre == IF "pre_query" \in data.keys THEN data.pre_query ELSE <<>>
                     post == IF "post_result" \in data.keys THEN data.post_result ELSE <<>>
                     loaded == LoadSections(pre \o post, <<>>)
                 IN IF ~loaded.raised /\ loaded.heuristics = <<>>
                    THEN Loaded(default_heuristics)
                    ELSE loaded

\* ------------------------------------------------------ the engine at work
\* HeuristicEngine(heuristics=hs), built by a caller
Construct(hs) ==
    /\ eng.pc = "new"
    /\ eng' = [eng EXCEPT !.pc = "ready", !.heuristics = hs]
    /\ UNCHANGED <<loop_vars, hist>>

\* load_engine_from_config(path) on the file at path
LoadFromConfig(file) ==
    /\ eng.pc = "new"
    /\ LET loaded == load_engine_from_config(file)
       IN eng' = [eng EXCEPT !.pc = IF loaded.raised THEN "load_raised" ELSE "ready",
                             !.file = Some(file),
                             !.heuristics = loaded.heuristics]
    /\ UNCHANGED <<loop_vars, hist>>

\* engine.py 14-16 and 23-25: run_pre_query enters _run
RunPreQuery(text) ==
    /\ eng.pc = "ready"
    /\ eng' = [eng EXCEPT !.pc = "run", !.user_input = text,
                          !.interim_result = None, !.current_input = text]
    /\ UNCHANGED <<loop_vars, hist>>

\* engine.py 18-20 and 23-25: run_post_result enters _run
RunPostResult(text, interim) ==
    /\ eng.pc = "ready"
    /\ eng' = [eng EXCEPT !.pc = "run", !.user_input = text,
                          !.interim_result = Some(interim), !.current_input = interim]
    /\ UNCHANGED <<loop_vars, hist>>

\* EnabledFrom with the enabled flag ignored
EnabledFrom_All(hs, pos) == pos..Len(hs)

\* engine.py 39-43: the positions that the generator _enabled, standing at
\* pos, has still to yield
EnabledFrom(hs, pos) == {p \in pos..Len(hs) : hs[p].enabled}

\* The call of h.run that a step of the pipeline records
Invocation(p, h, text, interim) ==
    [pos |-> p, id |-> h.id, user_input |-> text, interim_result |-> interim]

\* UnitStep with every unit given the text the pipeline started with
UnitStep_InitialText ==
    /\ eng.pc = "run"
    /\ EnabledFrom(eng.heuristics, eng.pos) # {}
    /\ LET p == Min(EnabledFrom(eng.heuristics, eng.pos))
           h == eng.heuristics[p]
           text == IF IsSet(eng.interim_result) THEN Get(eng.interim_result)
                   ELSE eng.user_input
           r == TryRun(h, text, eng.interim_result)
       IN eng' = [eng EXCEPT
                     !.pos = p + 1,
                     !.current_input =
                         IF IsSet(r.modified_input) THEN Get(r.modified_input) ELSE @,
                     !.results = Append(@, r),
                     !.invoked = Append(@, Invocation(p, h, text, eng.interim_result))]
    /\ UNCHANGED <<loop_vars, hist>>

\* UnitStep without the handler of line 30: the exception of a unit leaves _run
UnitStep_Propagates ==
    /\ eng.pc = "run"
    /\ EnabledFrom(eng.heuristics, eng.pos) # {}
    /\ LET p == Min(EnabledFrom(eng.heuristics, eng.pos))
           h == eng.heuristics[p]
           r == TryRun(h, eng.current_input, eng.interim_result)
       IN eng' = [eng EXCEPT
                     !.pc = IF Raises(h) THEN "run_raised" ELSE @,
                     !.pos = p + 1,
                     !.current_input =
                         IF IsSet(r.modified_input) THEN Get(r.modified_input) ELSE @,
                     !.results = IF Raises(h) THEN @ ELSE Append(@, r),
                     !.invoked = Append(@, Invocation(p, h, eng.current_input,
                                                      eng.interim_result))]
    /\ UNCHANGED <<loop_vars, hist>>

\* engine.py 27-35: one turn of the for loop, on the next enabled unit
UnitStep ==
    /\ eng.pc = "run"
    /\ EnabledFrom(eng.heuristics, eng.pos) # {}
    /\ LET p == Min(EnabledFrom(eng.heuristics, eng.pos))
           h == eng.heuristics[p]
           r == TryRun(h, eng.current_input, eng.interim_result)
       IN eng' = [eng EXCEPT
                     !.pos = p + 1,
                     !.current_input =
                         IF IsSet(r.modified_input) THEN Get(r.modified_input) ELSE @,
                     !.results = Append(@, r),
                     !.invoked = Append(@, Invocation(p, h, eng.current_input,
                                                      eng.interim_result))]
    /\ UNCHANGED <<loop_vars, hist>>

\* engine.py 37: no enabled unit is left and _run returns
EngineReturn ==
    /\ eng.pc = "run"
    /\ EnabledFrom(eng.heuristics, eng.pos) = {}
    /\ eng' = [eng EXCEPT !.pc = "done",
                          !.ret = Some([final_text |-> eng.current_input,
                                        results |-> eng.results])]
    /\ UNCHANGED <<loop_vars, hist>>

EngineInit == LoopIdle /\ eng = EngineNew /\ hist = HistoryIdle

EngineNext ==
    \/ \E hs \in ConstructedPipelines : Construct(hs)
    \/ \E file \in ConfigFiles : LoadFromConfig(file)
    \/ \E text \in EngineTexts : RunPreQuery(text)
    \/ \E interim \in EngineTexts : RunPostResult(<<"task">>, interim)
    \/ UnitStep
    \/ EngineReturn

\* An engine is built or loaded and its pipeline run once, in either mode.
SpecEngine == EngineInit /\ [][EngineNext]_vars

\* ---------------------------------------------------------- history index
\* indexer.py 20
EmbedDim == 256

\* The builds that may precede the construction of a retriever, and the
\* largest top_k asked for.
MaxBuilds == 2
MaxTopK == 2

\* hash() of a token: it depends on the hash seed of the process
Seeds == {0, 1}

TokenCode(t) ==
    CASE t = "add" -> 1
      [] t = "two" -> 2
      [] t = "sum" -> 3
      [] t = "four" -> 4
      [] OTHER -> 5

Hash(seed, t) == IF seed = 0 THEN TokenCode(t) * 7 ELSE TokenCode(t) * 11 + 3

\* text.lower().split(), on texts whose words are set apart by white space
Tokens(text) == SelectSeq(Lower(text), LAMBDA c : c \notin White)

\* indexer.py 16-26 simple_embed: the count of tokens in each bucket that has
\* one; the division by the norm is kept implicit (see Similar)
simple_embed(seed, text) ==
    LET toks == Tokens(text)
        bucket(i) == Hash(seed, toks[i]) % EmbedDim
    IN [b \in {bucket(i) : i \in DOMAIN toks} |->
            Cardinality({i \in DOMAIN toks : bucket(i) = b})]

RECURSIVE SumProducts(_, _, _)
SumProducts(S, a, b) ==
    IF S = {} THEN 0
    ELSE LET x == CHOOSE x \in S : TRUE
         IN a[x] * b[x] + SumProducts(S \ {x}, a, b)

Dot(a, b) == SumProducts(DOMAIN a \cap DOMAIN b, a, b)

\* indexer.py 25: `norm or 1.0`, squared
NormSq(v) == IF Dot(v, v) = 0 THEN 1 ELSE Dot(v, v)

\* The stored row x is at least as similar to the query q as the stored row
\* y: x/|x| . q >= y/|y| . q, with the (non-negative) sides squared
Similar(x, y, q) == Dot(x, q) * Dot(x, q) * NormSq(y) >= Dot(y, q) * Dot(y, q) * NormSq(x)

\* json.dumps({"query": q, "answer": a}) and a text that json.loads rejects
Dumps(qa) == [ok |-> TRUE, query |-> qa.query, answer |-> qa.answer]
BadMeta == [ok |-> FALSE, query |-> <<>>, answer |-> <<>>]

\* The two files of the index directory
NpzFile(readable, X, meta) == [readable |-> readable, X |-> X, meta |-> meta]
IndexFile(readable, vectors) == [readable |-> readable, vectors |-> vectors]

QA(query, answer) == [query |-> query, answer |-> answer]

\* A file of the memory directory, in the order os.walk yields them: whether
\* its name ends in .json, whether json.load reads it, whether the document
\* is a list of objects, and then the records, each with its type and the
\* value of `item.get(field) or item.get('text')` (None when that is falsy).
MemoryFile(is_json, readable, is_list, records) ==
    [is_json |-> is_json, readable |-> readable, is_list |-> is_list,
     records |-> records]

Record(type, value) == [type |-> type, value |-> value]

Transcript(records) == MemoryFile(TRUE, TRUE, TRUE, records)

Session(query, answer) ==
    Transcript(<< Record("run_metadata", Some(query)),
                  Record("tool_output", Some(<<"two">>)),
                  Record("final_answer", Some(answer)) >>)

MemoryDirs ==
    { <<>>,
      << Session(<<"add", " ", "two">>, <<"four">>),
         MemoryFile(TRUE, FALSE, FALSE, <<>>),
         Session(<<"sum">>, <<"two">>) >>,
      << Transcript(<< Record("run_metadata", Some(<<"sum">>)),
                       Record("run_metadata", Some(<<"mul">>)),
                       Record("final_answer", Some(<<"two">>)) >>),
         MemoryFile(FALSE, TRUE, TRUE, <<>>),
         Transcript(<< Record("run_metadata", None),
                       Record("run_metadata", Some(<<"add", " ", "two">>)),
                       Record("final_answer", Some(<<"two">>)),
                       Record("final_answer", Some(<<"four">>)) >>),
         Session(<<"mul">>, <<"add">>) >>,
      << Transcript(<< Record("run_metadata", Some(<<"sum">>)) >>),
         Session(<<"mul">>, <<"add">>),
         Transcript(<< Record("final_answer", Some(<<"four">>)) >>),
         Transcript(<<>>) >>,
      << Transcript(<< Record("run_metadata", Some(<<"sum">>)),
                       Record("tool_output", Some(<<"two">>)) >>) >>,
      << Session(<<"mul">>, <<"add">>),
         MemoryFile(TRUE, TRUE, FALSE, <<>>) >> }

\* indexer.py 52-59: the loop over the records of one transcript, from the
\* values user_query and final_answer have so far
RECURSIVE ScanRecords(_, _, _)
ScanRecords(records, uq, fa) ==
    IF records = <<>> THEN [user_query |-> uq, final_answer |-> fa]
    ELSE LET item == Head(records)
         IN IF item.type = "run_metadata" /\ ~IsSet(uq)
            THEN ScanRecords(Tail(records), item.value, fa)
            ELSE IF item.type = "run_metadata" THEN ScanRecords(Tail(records), uq, fa)
            ELSE IF item.type = "final_answer"
            THEN ScanRecords(Tail(records), uq, item.value)
            ELSE ScanRecords(Tail(records), uq, fa)

\* indexer.py 35-64 HistoryIndexer._collect_qas over the files of the memory
\* directory: the pairs, or raised when a document that json.load read is
\* not a list of objects (item.get sits outside the try of lines 45-49)
RECURSIVE _collect_qas(_)
_collect_qas(files) ==
    IF files = <<>> THEN [raised |-> FALSE, qas |-> <<>>]
    ELSE LET f == Head(files)
             rest == _collect_qas(Tail(files))
         IN IF ~f.is_json \/ ~f.readable THEN rest
            ELSE IF ~f.is_list THEN [raised |-> TRUE, qas |-> <<>>]
            ELSE LET found == ScanRecords(f.records, None, None)
                 IN IF IsSet(found.user_query) /\ IsSet(found.final_answer)
                    THEN [raised |-> rest.raised,
                          qas |-> IF rest.raised THEN <<>>
                                  ELSE <<QA(Get(found.user_query),
                                            Get(found.final_answer))>> \o rest.qas]
                    ELSE rest

Queries == { <<"add", " ", "two">>, <<"Sum">>, <<"four", " ", "four">>, <<>> }

\* What the index directory may hold before any build: nothing, a snapshot
\* that np.load cannot read, or a snapshot of another origin one of whose
\* metadata entries is not JSON.
InitialSnapshots ==
    { None,
      Some(NpzFile(FALSE, <<>>, <<>>)),
      Some(NpzFile(TRUE,
                   << simple_embed(0, <<"add", " ", "two">>),
                      simple_embed(0, <<"sum">>),
                      simple_embed(0, <<"sum", " ", "two">>) >>,
                   << Dumps(QA(<<"add", " ", "two">>, <<"four">>)), BadMeta,
                      Dumps(QA(<<"sum", " ", "two">>, <<"add">>)) >>)) }

\* indexer.py 66-87 HistoryIndexer.build over the files of the memory
\* directory; when _collect_qas raises, build ends with nothing written
Build(files, faiss_available, seed) ==
    /\ hist.pc = "disk"
    /\ hist.builds < MaxBuilds
    /\ LET collected == _collect_qas(files)
           qas == collected.qas
           X == [i \in 1..Len(qas) |->
                    simple_embed(seed, qas[i].query \o <<"NL">> \o qas[i].answer)]
           meta == [i \in 1..Len(qas) |-> Dumps(qas[i])]
       IN IF collected.raised
          THEN hist' = [hist EXCEPT
                           !.builds = @ + 1,
                           !.files = files,
                           !.build_seed = seed,
                           !.build_raised = TRUE]
          ELSE hist' = [hist EXCEPT
                           !.builds = @ + 1,
                           !.files = files,
                           !.build_seed = seed,
                           !.build_raised = FALSE,
                           !.npz = Some(NpzFile(TRUE, X, meta)),
                           !.faiss_file = IF qas # <<>> /\ faiss_available
                                          THEN Some(IndexFile(TRUE, X)) ELSE @]
    /\ UNCHANGED <<loop_vars, eng>>

\* retriever.py 19-40 HistoryRetriever.__init__ and _load
Load(faiss_available, seed) ==
    /\ hist.pc = "disk"
    /\ IF IsSet(hist.npz) /\ ~Get(hist.npz).readable
       THEN hist' = [hist EXCEPT !.pc = "load_raised"]
       ELSE LET X == IF IsSet(hist.npz) THEN Get(hist.npz).X ELSE <<>>
                meta == IF IsSet(hist.npz) THEN Get(hist.npz).meta ELSE <<>>
            IN hist' = [hist EXCEPT
                           !.pc = "loaded",
                           !.seed = seed,
                           !.X = X,
                           !.meta = meta,
                           !.faiss_idx =
                               IF /\ faiss_available
                                  /\ IsSet(hist.faiss_file)
                                  /\ Len(X) > 0
                                  /\ Get(hist.faiss_file).readable
                               THEN Some(Get(hist.faiss_file).vectors)
                               ELSE None]
    /\ UNCHANGED <<loop_vars, eng>>

\* The orders (of the indices 0..n-1) in which the vectors stand by
\* non-increasing similarity to q; vectors of equal similarity in any order
Rankings(vectors, q) ==
    LET n == Len(vectors)
    IN { p \in [1..n -> 0..(n - 1)] :
             /\ \A i, j \in 1..n : i # j => p[i] # p[j]
             /\ \A i \in 1..(n - 1) : Similar(vectors[p[i] + 1], vectors[p[i + 1] + 1], q) }

\* retriever.py 53-54: np.argsort(-sims.ravel())[:top_k]
ArgsortTop(X, q, top_k) ==
    { SubSeq(p, 1, Min({top_k, Len(X)})) : p \in Rankings(X, q) }

\* retriever.py 49-50: IndexFlatIP.search(q, k): the k best of the vectors of
\* the index, filled up with -1 when it holds fewer
FaissSearch(vectors, q, k) ==
    { SubSeq(p, 1, Min({k, Len(vectors)})) \o [i \in 1..(k - Min({k, Len(vectors)})) |-> -1] :
          p \in Rankings(vectors, q) }

\* self.meta[i]: the row that index i of the array stands for (0 where the
\* access raises IndexError); a negative index counts from the end
RowAt(meta, i) ==
    IF i >= 0 THEN (IF i < Len(meta) THEN i + 1 ELSE 0)
    ELSE (IF Len(meta) + i >= 0 THEN Len(meta) + i + 1 ELSE 0)

\* retriever.py 56-63: the rows whose metadata is read and deserialized
Deserialized(meta, idxs) ==
    SelectSeq([k \in 1..Len(idxs) |-> RowAt(meta, idxs[k])],
              LAMBDA r : r # 0 /\ meta[r].ok)

\* retriever.py 42-63 HistoryRetriever.retrieve
Retrieve(query, top_k) ==
    /\ hist.pc \in {"loaded", "retrieved"}
    /\ LET q == simple_embed(hist.seed, query)
           found == IF Len(hist.X) = 0 THEN {<<>>}
                    ELSE IF IsSet(hist.faiss_idx)
                    THEN FaissSearch(Get(hist.faiss_idx), q, Min({top_k, Len(hist.X)}))
                    ELSE ArgsortTop(hist.X, q, top_k)
       IN \E idxs \in found :
              LET rows == Deserialized(hist.meta, idxs)
              IN hist' = [hist EXCEPT
                             !.pc = "retrieved",
                             !.query = query,
                             !.q = q,
                             !.top_k = top_k,
                             !.rows = rows,
                             !.ret = [k \in 1..Len(rows) |->
                                         QA(hist.meta[rows[k]].query,
                                            hist.meta[rows[k]].answer)]]
    /\ UNCHANGED <<loop_vars, eng>>

HistoryInit ==
    /\ LoopIdle
    /\ eng = EngineIdle
    /\ hist \in {HistoryNew(npz) : npz \in InitialSnapshots}

HistoryNext ==
    \/ \E files \in MemoryDirs, faiss_available \in BOOLEAN, seed \in Seeds :
           Build(files, faiss_available, seed)
    \/ \E faiss_available \in BOOLEAN, seed \in Seeds : Load(faiss_available, seed)
    \/ \E query \in Queries, top_k \in 1..MaxTopK : Retrieve(query, top_k)

\* The index is built some times, a retriever is constructed over the
\* directory and asked.
SpecHistory == HistoryInit /\ [][HistoryNext]_vars

\* ================================================================== claims
\* The sandbox returned (it did not raise) in this step.
SandboxReturned == pc = "sandbox" /\ pc' # "raised"

LastSubtask(log) == log[Len(log)]

\* What may follow the while test of loop.py 40: an attempt of the same step
\* exactly when the counter is still >= 0, else the step is left.
WhileRule ==
    pc = "while" =>
        /\ (pc' = "perception" /\ step' = step) <=> lifelines_left >= 0
        /\ (pc' = "for") <=> lifelines_left < 0

\* What may follow the head of the for loop: the next step with a fresh
\* lifeline budget, or the return of the max-steps literal after the last step.
ForRule ==
    pc = "for" =>
        \/ /\ step + 1 < max_steps
           /\ pc' = "while"
           /\ step' = step + 1
           /\ lifelines_left' = max_lifelines_per_step
           /\ attempts' = 0
        \/ /\ step + 1 >= max_steps
           /\ pc' = "returned"
           /\ ret' = Done(MaxStepsReached)

\* C1: a sandbox result that (stripped, as the loop reads it) starts with
\* FINAL_ANSWER: is recorded as the final answer and returned as
\* {status: done, result: that text} in the same step of the run; nothing
\* happens after a return (no perception, planning or sandbox call); and when
\* the first execution of step 1 is such a result the run returns it after
\* exactly one attempt of step 1, no lifeline consumed.
C1_FinalStep ==
    (SandboxReturned /\ result'.isstr /\ StartsWith(result'.text, FINAL)) =>
        /\ final_answer' = Some(result'.text)
        /\ ret' = Done(result'.text)
        /\ pc' = "returned"
        /\ LastSubtask(subtasks').status = "success"
        /\ lifelines_left' = lifelines_left

C1_FirstFinal ==
    (pc = "returned" /\ sandbox_calls = 1 /\ perception_calls = 1
        /\ result.isstr /\ StartsWith(result.text, FINAL)) =>
        /\ ret = Done(result.text)
        /\ step = 0
        /\ attempts = 1
        /\ plan_calls = 1
        /\ lifelines_used = 0

C1_FinalAnswerReturnsAtOnce ==
    /\ [][C1_FinalStep /\ pc # "returned"]_vars
    /\ [](C1_FirstFinal)

C1_Witness ==
    /\ pc = "returned"
    /\ sandbox_calls = 1 /\ perception_calls = 1 /\ attempts = 1 /\ step = 0
    /\ ret = Done(<<FINAL, " ", "42">>)
    /\ result.text = <<FINAL, " ", "42">>


\* C2: a sandbox result starting with FURTHER_PROCESSING_REQUIRED: ends the
\* step without touching the lifeline counter: the payload, as adjusted by the
\* post-result heuristics and wrapped in the task-resumption framing, becomes
\* user_input_override, the run does not return, control is at the head of the
\* for loop (so the next attempt, if any, is in the next step with a fresh
\* budget); and a forward in step 1 followed by a Final result in step 2
\* returns the step-2 text with no lifeline consumed.
C2_ForwardStep ==
    (SandboxReturned /\ result'.isstr /\ StartsWith(result'.text, FPR)) =>
        /\ lifelines_left' = lifelines_left
        /\ lifelines_used' = lifelines_used
        /\ user_input_override' =
               Some(Frame(user_input,
                          Engine_run(heuristics, ForwardContent(result'.text),
                                     Some(ForwardContent(result'.text)))))
        /\ ret' = None
        /\ pc' = "for"
        /\ step' = step

C2_ForwardThenFinal ==
    (pc = "returned" /\ IsSet(user_input_override)
        /\ perception_calls = 2 /\ sandbox_calls = 2
        /\ result.isstr /\ StartsWith(result.text, FINAL)) =>
        /\ ret = Done(result.text)
        /\ step = 1
        /\ attempts = 1
        /\ lifelines_used = 0
        /\ lifelines_left = max_lifelines_per_step

C3_ErrorStep ==
    (SandboxReturned /\ result'.isstr /\ StartsWith(result'.text, SBE)) =>
        /\ Len(subtasks') = Len(subtasks)
        /\ LastSubtask(subtasks').status = "failure"
        /\ lifelines_left' = lifelines_left - 1
        /\ lifelines_used' = lifelines_used + 1
        /\ ret' = None
        /\ pc' = "while"
        /\ step' = step

C3_SandboxErrorConsumesOneLifeline == [][C3_ErrorStep /\ WhileRule]_vars

C3_Witness ==
    /\ pc = "perception"
    /\ attempts = 2
    /\ sandbox_calls = 1
    /\ result.isstr /\ StartsWith(result.text, SBE)
    /\ lifelines_left = max_lifelines_per_step - 1
    /\ LastSubtask(subtasks).status = "failure"


\* A text with none of the three recognized prefixes
NoPrefix(t) == ~StartsWith(t, FINAL) /\ ~StartsWith(t, FPR) /\ ~StartsWith(t, SBE)

\* The attempt is recorded as a success with "FINAL_ANSWER: <text>" as answer.
PlainRecorded ==
    /\ final_answer' = Some(<<FINAL, " ">> \o result'.text)
    /\ Len(subtasks') = Len(subtasks)
    /\ LastSubtask(subtasks').status = "success"

PlainReturned ==
    /\ PlainRecorded
    /\ ret' = Done(<<FINAL, " ">> \o result'.text)
    /\ pc' = "returned"
    /\ lifelines_left' = lifelines_left
    /\ lifelines_used' = lifelines_used

\* C4 (as claimed): every sandbox result text with none of the three prefixes
\* is a successful final answer and makes the loop return DONE at once, no
\* lifeline consumed, no further attempt.
C4_PlainAlwaysReturns ==
    [][(SandboxReturned /\ result'.isstr /\ NoPrefix(result'.text)) => PlainReturned]_vars

\* C4 (amended): a sandbox result text with none of the three prefixes and
\* without FURTHER_PROCESSING_REQUIRED: anywhere in it is a successful final
\* answer and makes the loop return DONE at once, no lifeline consumed; one
\* that contains FURTHER_PROCESSING_REQUIRED: after its start is recorded as a
\* success too, but the loop does not return: it takes a lifeline and retries.
C4_PlainStep ==
    (SandboxReturned /\ result'.isstr /\ NoPrefix(result'.text)) =>
        IF \E i \in 1..Len(result'.text) : result'.text[i] = FPR
        THEN /\ PlainRecorded
             /\ ret' = None
             /\ pc' = "while"
             /\ step' = step
             /\ lifelines_left' = lifelines_left - 1
             /\ lifelines_used' = lifelines_used + 1
        ELSE PlainReturned

C4_PlainReturnsUnlessForwardInside == [][C4_PlainStep /\ WhileRule]_vars

C4_Witness ==
    /\ pc = "returned"
    /\ sandbox_calls = 1
    /\ result = [isstr |-> TRUE, text |-> <<"5">>]
    /\ ret = Done(<<FINAL, " ", "5">>)
    /\ lifelines_used = 0

\* C5: when the plan returned by generate_plan does not match the solve
\* signature the sandbox is not called and no subtask record is written; one
\* lifeline is taken and the loop retries in the same step while the counter
\* is still >= 0.
C5_InvalidPlanStep ==
    (pc = "plan" /\ pc' # "raised" /\ ~MatchesSolve(plan')) =>
        /\ sandbox_calls' = sandbox_calls
        /\ subtasks' = subtasks
        /\ memory' = memory
        /\ lifelines_left' = lifelines_left - 1
        /\ lifelines_used' = lifelines_used + 1
        /\ ret' = None
        /\ pc' = "while"
        /\ step' = step

C5_InvalidPlanConsumesOneLifeline == [][C5_InvalidPlanStep /\ WhileRule]_vars

C5_Witness ==
    /\ pc = "perception"
    /\ attempts = 2
    /\ plan = CouldNotGenerate
    /\ plan_calls = 1
    /\ sandbox_calls = 0
    /\ subtasks = <<>>
    /\ lifelines_left = max_lifelines_per_step - 1

\* C6: when perception selects no tools the step is aborted: no planning and
\* no sandbox call in that attempt, no lifeline consumed, no further attempt
\* in the step; control goes to the next step, or to the max-steps return
\* after the last step.
C6_NoToolsStep ==
    (pc = "perception" /\ pc' # "raised" /\ selected_tools' = {}) =>
        /\ plan_calls' = plan_calls
        /\ sandbox_calls' = sandbox_calls
        /\ lifelines_left' = lifelines_left
        /\ lifelines_used' = lifelines_used
        /\ attempts' = attempts
        /\ ret' = None
        /\ pc' = "for"

C6_NoToolsAbortsStep == [][C6_NoToolsStep /\ ForRule]_vars

C6_Witness ==
    /\ pc = "while"
    /\ step = 1
    /\ perception_calls = 1
    /\ plan_calls = 0
    /\ lifelines_used = 0
    /\ max_lifelines_per_step = 1


\* C7: every run ends by handing the caller a literal final-answer string, never
\* an unhandled fault, whatever the collaborators do (a collaborator failing
\* included): run is never left by an exception, and what it returns is a
\* text that starts with FINAL_ANSWER:.
C7_NeverUnhandledFault ==
    /\ pc # "raised"
    /\ pc = "returned" => (IsSet(ret) /\ StartsWith(Get(ret).result, FINAL))

\* The last sandbox result made its attempt return DONE.
ReachedDone ==
    /\ sandbox_calls > 0
    /\ result.isstr
    /\ \/ StartsWith(result.text, FINAL)
       \/ NoPrefix(result.text) /\ ~Contains(result.text, FPR)

\* C8: a run that returns without any attempt having reached DONE returns the
\* max-steps literal (and has recorded it as the final answer); when moreover
\* tools were selected in every attempt and no plan had a solve signature, the
\* run made exactly max_steps * (max_lifelines_per_step + 1) planning attempts,
\* each consuming a lifeline, and no sandbox call.
C8_MaxStepsLiteral ==
    /\ (pc = "returned" /\ ~ReachedDone) =>
           /\ ret = Done(<<FINAL, " ", "[Max steps reached]">>)
           /\ final_answer = Some(<<FINAL, " ", "[Max steps reached]">>)
    /\ (pc = "returned" /\ sandbox_calls = 0 /\ plan_calls = perception_calls) =>
           /\ plan_calls = max_steps * (max_lifelines_per_step + 1)
           /\ lifelines_used = plan_calls
           /\ lifelines_left = -1
           /\ ret = Done(<<FINAL, " ", "[Max steps reached]">>)

C8_Witness ==
    /\ pc = "returned"
    /\ max_steps = 2 /\ max_lifelines_per_step = 1
    /\ sandbox_calls = 0
    /\ plan_calls = 4 /\ perception_calls = 4
    /\ ret = Done(MaxStepsReached)

\* C9: once the outcome of a sandbox attempt has been handled, no subtask
\* record is still pending, whatever the outcome class: a record is pending
\* only while its sandbox call is in flight, and then it is the last one.
C9_NoRecordLeftPending ==
    \A i \in 1..Len(subtasks) :
        subtasks[i].status = "pending" => (pc = "sandbox" /\ i = Len(subtasks))

\* C10: the text of an attempt (given to the pre-query heuristics and to the
\* planner) is the override when a forward has set it and the original task
\* input otherwise; an override, once set, stays set for the rest of the run;
\* a planning call made while it is set uses the summarization prompt, one
\* made before any forward the prompt chosen from the configured modes.
AttemptText == IF IsSet(user_input_override) THEN Get(user_input_override) ELSE user_input

C10_AttemptInputs ==
    /\ pc = "perception" => current_input = Engine_run(heuristics, AttemptText, None)
    /\ pc = "plan" =>
           /\ current_user_input = AttemptText
           /\ prompt_path =
                  Some(IF IsSet(user_input_override)
                       THEN <<"prompts/decision_prompt_summarize.txt">>
                       ELSE select_decision_prompt_path(planning_mode, ExplorationMode))

C10_OverrideInputAndPrompt ==
    /\ [](C10_AttemptInputs)
    /\ [][IsSet(user_input_override) => IsSet(user_input_override')]_vars

C10_Witness ==
    /\ pc = "plan"
    /\ IsSet(user_input_override)
    /\ step = 1
    /\ attempts = 2
    /\ prompt_path = Some(SummarizePrompt)
    /\ current_user_input = Get(user_input_override)


\* C11: when the language model raises inside generate_plan the run ends at
\* once with the literal FINAL_ANSWER: [unknown] as its result, and when the
\* planner's text is merely not a solve() plan one lifeline is consumed and
\* the step is tried again.
C11_RaisingStep ==
    (pc = "plan" /\ pc' # "raised" /\ plan' = UnknownAnswer) =>
        /\ pc' = "returned"
        /\ ret' = Done(UnknownAnswer)

C11_MalformedStep ==
    (pc = "plan" /\ pc' # "raised" /\ plan' = CouldNotGenerate) =>
        /\ lifelines_left' = lifelines_left - 1
        /\ pc' = "while"
        /\ step' = step

C11_PlannerRaisingEndsRun == [][C11_RaisingStep /\ C11_MalformedStep]_vars

\* C12: a cancellation delivered while the run is suspended on the perception,
\* planning or sandbox call ends the run there and commits nothing: the final
\* answer, the subtask records (a pending one included), the memory and the
\* override are as they were at the await, nothing is returned, and the
\* cancelled run takes no further step.
C12_CancelStep ==
    (pc' = "cancelled" /\ pc # "cancelled") =>
        /\ pc \in {"perception", "plan", "sandbox"}
        /\ final_answer' = final_answer
        /\ subtasks' = subtasks
        /\ memory' = memory
        /\ user_input_override' = user_input_override
        /\ ret' = None

C12_CancelCommitsNothing ==
    /\ [][C12_CancelStep /\ pc # "cancelled"]_vars
    /\ [](pc = "cancelled" => ret = None)

C12_Witness ==
    /\ pc = "cancelled"
    /\ sandbox_calls = 1
    /\ final_answer = None
    /\ Len(subtasks) = 1
    /\ subtasks[1].status = "pending"


\* The enabled units of the engine in list order, the text its pipeline
\* starts with, and the working text after the first j results: the last
\* modified_input among them, or the starting text.
EnabledUnits == SelectSeq(eng.heuristics, LAMBDA h : h.enabled)

InitialText ==
    IF IsSet(eng.interim_result) THEN Get(eng.interim_result) ELSE eng.user_input

TextAfter(j) ==
    LET S == {i \in 1..j : IsSet(eng.results[i].modified_input)}
    IN IF S = {} THEN InitialText
       ELSE Get(eng.results[CHOOSE i \in S : \A m \in S : m <= i].modified_input)

C14_FailureIsolated ==
    /\ eng.pc # "run_raised"
    /\ \A j \in 1..Len(eng.results) :
          Raises(EnabledUnits[j]) =>
              /\ eng.results[j] =
                     Result(None, Some(<<"heuristic_error", EnabledUnits[j].id, "">>),
                            {}, "warn")
              /\ TextAfter(j) = TextAfter(j - 1)
    /\ eng.pc = "done" =>
          /\ Len(Get(eng.ret).results) = Len(EnabledUnits)
          /\ Len(eng.invoked) = Len(EnabledUnits)
          /\ \A j \in 1..Len(EnabledUnits) : eng.invoked[j].id = EnabledUnits[j].id

C14_Witness ==
    /\ eng.pc = "done"
    /\ Len(eng.heuristics) = 3
    /\ Raises(eng.heuristics[1])
    /\ Get(eng.ret).results[1].severity = "warn"
    /\ Get(eng.ret).results[1].notes = Some(<<"heuristic_error", "custom", "">>)
    /\ eng.invoked[2].user_input = eng.user_input
    /\ IsSet(Get(eng.ret).results[2].modified_input)
    /\ Len(Get(eng.ret).results) = 3

\* C15: a disabled unit is never called and has no entry; the entries are
\* those of the enabled units in their relative order, as many as there are
\* enabled units; and the text returned is the one the pipeline without the
\* disabled units returns.
C15_DisabledSkipped ==
    /\ \A j \in 1..Len(eng.invoked) : eng.heuristics[eng.invoked[j].pos].enabled
    /\ \A i, j \in 1..Len(eng.invoked) : i < j => eng.invoked[i].pos < eng.invoked[j].pos
    /\ eng.pc = "done" =>
          /\ Len(Get(eng.ret).results) =
                 Cardinality({p \in 1..Len(eng.heuristics) : eng.heuristics[p].enabled})
          /\ {eng.invoked[j].pos : j \in 1..Len(eng.invoked)} =
                 {p \in 1..Len(eng.heuristics) : eng.heuristics[p].enabled}
          /\ Get(eng.ret).final_text =
                 Engine_run(EnabledUnits, InitialText, eng.interim_result)

C15_Witness ==
    /\ eng.pc = "done"
    /\ Len(eng.heuristics) = 5
    /\ ~eng.heuristics[1].enabled
    /\ Len(Get(eng.ret).results) = 2
    /\ eng.invoked[1].pos = 3
    /\ eng.invoked[2].pos = 5
    /\ eng.user_input = <<"Token", " ", "d">>
    /\ Get(eng.ret).final_text = <<"Token", " ">>

\* C16: whatever the context, with or without an interim result, the result
\* of a built-in unit has a severity among none, info, warn and error, flags
\* that form a mapping (no key twice), and a modified_input that is absent or
\* a non-empty text.
Severities == {"none", "info", "warn", "error"}

IsMapping(flags) == \A a, b \in flags : a[1] = b[1] => a = b

C16_ResultShape ==
    \A j \in 1..Len(eng.results) :
        eng.invoked[j].id \in BuiltinIds =>
            /\ eng.results[j].severity \in Severities
            /\ IsMapping(eng.results[j].flags)
            /\ IsSet(eng.results[j].modified_input) =>
                   Get(eng.results[j].modified_input) # <<>>

C16_Witness ==
    /\ eng.pc = "done"
    /\ eng.heuristics = default_heuristics
    /\ eng.interim_result = Some(<<"Token">>)
    /\ Len(eng.results) = 10
    /\ eng.results[3].modified_input = Some(REDACTED)
    /\ eng.results[2] = NoResult


\* The banned words of a list that a text holds, in list order
WordsIn(text, banned) == SelectSeq(banned, LAMBDA w : Search(text, w))

\* What the banned words filter at entry j must return, where clean(h, t)
\* says which rewritten texts are accepted as free of the words of h.
BannedResultOk(j, clean(_, _)) ==
    LET h == EnabledUnits[j]
        text == eng.invoked[j].user_input
        r == eng.results[j]
    IN IF WordsIn(text, h.banned) # <<>>
       THEN /\ IsSet(r.modified_input)
            /\ Search(Get(r.modified_input), REDACTED)
            /\ clean(h, Get(r.modified_input))
            /\ r.severity = "warn"
            /\ r.flags = {<<"banned_terms_found", WordsIn(text, h.banned)>>}
       ELSE r = NoResult

NoWordLeft(h, t) == \A i \in 1..Len(h.banned) : ~Search(t, h.banned[i])

\* A word that cannot be met in or across a mask: it is not empty, holds no
\* bracket and does not occur in the letters of the mask.
Maskable(w) ==
    /\ w # <<>>
    /\ ~Contains(w, "[") /\ ~Contains(w, "]")
    /\ ~Search(SubSeq(REDACTED, 2, Len(REDACTED) - 1), w)

NoWordLeftIfMaskable(h, t) ==
    (\A i \in 1..Len(h.banned) : Maskable(h.banned[i])) => NoWordLeft(h, t)

\* C17 as stated: whatever the configured words, a text that holds one of them
\* (in any letter case) is rewritten with [REDACTED] so that no listed word
\* occurs in it any more in any letter case, the severity is warn and
\* banned_terms_found lists exactly the words that occurred; a text that holds
\* none is not rewritten.
C17_NoListedWordLeft ==
    \A j \in 1..Len(eng.results) :
        eng.invoked[j].id = "banned_words_filter" => BannedResultOk(j, NoWordLeft)

\* C17, amended: the same, for lists of non-empty words none of which holds a
\* bracket or occurs in the letters REDACTED of the mask; for any list the
\* rewritten text holds the mask, the severity is warn and banned_terms_found
\* lists exactly the words that occurred.
C17_NoMaskableWordLeft ==
    \A j \in 1..Len(eng.results) :
        eng.invoked[j].id = "banned_words_filter" =>
            BannedResultOk(j, NoWordLeftIfMaskable)

C17_Witness ==
    /\ eng.pc = "done"
    /\ Len(eng.heuristics) = 2
    /\ eng.heuristics[1].id = "banned_words_filter"
    /\ eng.heuristics[1].banned = OtherWordList
    /\ eng.user_input = <<"d", " ", "E">>
    /\ eng.results[1].modified_input = Some(REDACTED)
    /\ eng.results[1].flags = {<<"banned_terms_found", << <<"d", " ", "e">> >> >>}

\* What input_validation_system at entry j must return, where trims(h, t)
\* says which texts it has to cut.
ValidationResultOk(j, trims(_, _)) ==
    LET h == EnabledUnits[j]
        text == eng.invoked[j].user_input
        r == eng.results[j]
    IN /\ trims(h, text) =>
             /\ r.modified_input = Some(SubSeq(text, 1, h.max_len))
             /\ Len(Get(r.modified_input)) = h.max_len
             /\ r.flags = {<<"original_length", Len(text)>>}
             /\ r.severity = "warn"
       /\ Len(text) < h.min_len =>
             /\ r.severity = "error"
             /\ r.notes = Some("input_too_short")
             /\ ~IsSet(r.modified_input)
       /\ (~trims(h, text) /\ Len(text) >= h.min_len) => ~IsSet(r.modified_input)

Longer(h, t) == Len(t) > h.max_len

LongerNotShort(h, t) == Len(t) > h.max_len /\ Len(t) >= h.min_len

\* C18 as stated: any text longer than max_len is cut to its first max_len
\* symbols, with original_length and severity warn; any text shorter than
\* min_len gets severity error, the note input_too_short and no rewrite; any
\* other text is left alone.
C18_EveryLongTextTrimmed ==
    \A j \in 1..Len(eng.results) :
        eng.invoked[j].id = "input_validation_system" => ValidationResultOk(j, Longer)

\* C18, amended: a text longer than max_len and not shorter than min_len is
\* cut to its first max_len symbols, with original_length and severity warn;
\* a text shorter than min_len gets severity error, the note input_too_short
\* and no rewrite, also when it is longer than max_len; any other text is left
\* alone.
C18_LongTextTrimmedUnlessShort ==
    \A j \in 1..Len(eng.results) :
        eng.invoked[j].id = "input_validation_system" =>
            ValidationResultOk(j, LongerNotShort)

C18_Witness ==
    /\ eng.pc = "done"
    /\ Len(eng.heuristics) = 2
    /\ eng.heuristics[1].id = "input_validation_system"
    /\ eng.heuristics[1].max_len = 2
    /\ eng.user_input = <<"E", "d", " ">>
    /\ eng.results[1].modified_input = Some(<<"E", "d">>)
    /\ eng.results[1].flags = {<<"original_length", 3>>}

\* The entries of a configuration in file order, whether one of them is
\* malformed, and the units that the well-formed, enabled entries with a
\* known id stand for.
SectionsOf(file) == file.data.pre_query \o file.data.post_result

MalformedFile(file) ==
    \/ ~file.readable
    \/ ~file.parses
    \/ file.data.kind = "scalar"
    \/ \E i \in 1..Len(SectionsOf(file)) :
          \/ ~SectionsOf(file)[i].ismap
          \/ ~ValidParams(SectionsOf(file)[i].params)

ResolvedUnits(file) ==
    LET known == SelectSeq(SectionsOf(file),
                           LAMBDA x : x.ismap /\ x.enabled /\ x.id \in BuiltinIds)
    IN [i \in 1..Len(known) |-> Configured(known[i].id, known[i].params)]

\* C19: load_engine_from_config never raises: a file that cannot be read or
\* parsed, or whose document or one of whose entries is malformed, gives the
\* ten default units; a root enabled: false gives the empty pipeline; else
\* the entries with an unknown id are skipped and the units resolved are the
\* pipeline, or the ten defaults if none was resolved.
C19_LoaderFallsBack ==
    /\ eng.pc # "load_raised"
    /\ (eng.pc = "ready" /\ IsSet(eng.file)) =>
          LET file == Get(eng.file)
          IN IF MalformedFile(file) THEN eng.heuristics = default_heuristics
             ELSE IF ~file.data.enabled THEN eng.heuristics = <<>>
             ELSE IF ResolvedUnits(file) = <<>> THEN eng.heuristics = default_heuristics
             ELSE eng.heuristics = ResolvedUnits(file)


\* C20: retrieve(query, top_k) returns at most top_k results; the rows they
\* come from stand in non-increasing similarity (dot product of the stored
\* row with the query embedding); and a row whose metadata does not
\* deserialize is left out, without an exception.
C20_AtMostTopKBySimilarity ==
    hist.pc = "retrieved" =>
        /\ Len(hist.ret) <= hist.top_k
        /\ Len(hist.ret) = Len(hist.rows)
        /\ \A k \in 1..Len(hist.rows) : hist.meta[hist.rows[k]].ok
        /\ \A a, b \in 1..Len(hist.rows) :
              a < b => Similar(hist.X[hist.rows[a]], hist.X[hist.rows[b]], hist.q)


\* C21: constructing a HistoryRetriever over a missing or corrupt snapshot
\* never raises; the retriever then holds an empty corpus and retrieve
\* returns nothing for every query and top_k.
C21_MissingOrCorruptIsEmpty ==
    /\ hist.pc # "load_raised"
    /\ (hist.pc \in {"loaded", "retrieved"}
          /\ (~IsSet(hist.npz) \/ ~Get(hist.npz).readable)) =>
          /\ Len(hist.X) = 0
          /\ Len(hist.meta) = 0
          /\ ~IsSet(hist.faiss_idx)
          /\ hist.ret = <<>>


\* C22: whatever builds were made before the retriever is loaded, the
\* accelerated index the retriever uses, if it uses one, holds exactly the
\* rows of the matrix it loaded.
C22_IndexOverLoadedRows ==
    (hist.pc \in {"loaded", "retrieved"} /\ IsSet(hist.faiss_idx)) =>
        Get(hist.faiss_idx) = hist.X


\* The rows x and y are equally similar to the query q
Tied(x, y, q) == Similar(x, y, q) /\ Similar(y, x, q)

\* C23: rows that are equally similar to the query are returned in ascending
\* order of their index in the snapshot (here for a retriever whose
\* accelerated index, if any, is over the loaded rows).
C23_TiesInInsertionOrder ==
    (/\ hist.pc = "retrieved"
     /\ IsSet(hist.faiss_idx) => Get(hist.faiss_idx) = hist.X) =>
        \A a, b \in 1..Len(hist.rows) :
            (a < b /\ Tied(hist.X[hist.rows[a]], hist.X[hist.rows[b]], hist.q)) =>
                hist.rows[a] < hist.rows[b]


\* The files of the directory that are readable transcripts with a
\* run_metadata query and a final_answer text, the first query of one and
\* its final answers
HasType(records, type) ==
    \E i \in DOMAIN records : records[i].type = type /\ IsSet(records[i].value)

Qualifies(f) ==
    /\ f.is_json /\ f.readable /\ f.is_list
    /\ HasType(f.records, "run_metadata")
    /\ HasType(f.records, "final_answer")

FirstQuery(records) ==
    LET i == CHOOSE i \in DOMAIN records :
                 /\ records[i].type = "run_metadata" /\ IsSet(records[i].value)
                 /\ \A j \in 1..(i - 1) :
                        ~(records[j].type = "run_metadata" /\ IsSet(records[j].value))
    IN Get(records[i].value)

FinalAnswers(records) ==
    {Get(records[i].value) : i \in {i \in DOMAIN records :
        records[i].type = "final_answer" /\ IsSet(records[i].value)}}

\* C24: build persists a snapshot with one row and one metadata entry per
\* readable transcript that has a run_metadata query and a final answer, in
\* the same order, row i being the embedding of the pair serialized at
\* metadata entry i, and nothing for the other files; with no pair the
\* snapshot persisted is an empty one.
C24_OnePairPerTranscript ==
    (hist.builds > 0) =>
        /\ ~hist.build_raised
        /\ IsSet(hist.npz) /\ Get(hist.npz).readable
        /\ LET listed == SelectSeq(hist.files, Qualifies)
               X == Get(hist.npz).X
               meta == Get(hist.npz).meta
           IN /\ Len(X) = Len(listed)
              /\ Len(meta) = Len(listed)
              /\ \A i \in 1..Len(listed) :
                    /\ meta[i].ok
                    /\ meta[i].query = FirstQuery(listed[i].records)
                    /\ meta[i].answer \in FinalAnswers(listed[i].records)
                    /\ X[i] = simple_embed(hist.build_seed,
                                           meta[i].query \o <<"NL">> \o meta[i].answer)


\* C25: the embedding the retriever computes for a query is the one the
\* builder computes for the same text, also when the two run in different
\* processes.
C25_SameEmbeddingAcrossProcesses ==
    (hist.pc = "retrieved" /\ hist.builds > 0) =>
        hist.q = simple_embed(hist.build_seed, hist.query)


\* C26: the lifeline counter stays between -1 and max_lifelines_per_step;
\* every step starts with the counter reset to max_lifelines_per_step,
\* however the step before ended; an attempt starts only while the counter
\* is >= 0; a step makes at most max_lifelines_per_step + 1 attempts and the
\* run at most max_steps * (max_lifelines_per_step + 1).
C26_CounterBounds ==
    /\ -1 <= lifelines_left /\ lifelines_left <= max_lifelines_per_step
    /\ pc \in {"perception", "plan", "sandbox"} => lifelines_left >= 0
    /\ attempts <= max_lifelines_per_step + 1
    /\ perception_calls <= max_steps * (max_lifelines_per_step + 1)

C26_CounterStep ==
    /\ step' # step =>
           /\ step' = step + 1
           /\ lifelines_left' = max_lifelines_per_step
           /\ attempts' = 0
    /\ perception_calls' # perception_calls =>
           /\ lifelines_left >= 0
           /\ step' = step
           /\ attempts' = attempts + 1
           /\ perception_calls' = perception_calls + 1
    /\ (lifelines_left' # lifelines_left /\ step' = step) =>
           lifelines_left' = lifelines_left - 1

C26_LifelinesBounded ==
    /\ [](C26_CounterBounds)
    /\ [][C26_CounterStep]_vars

\* The second step has begun with a full counter after the first one spent
\* all its lifelines.
C26_Witness ==
    /\ pc = "perception"
    /\ step = 1
    /\ max_lifelines_per_step = 1
    /\ lifelines_left = 1
    /\ lifelines_used = 2
    /\ perception_calls = 3
    /\ attempts = 1


\* C27: in an attempt the calls come in the order pre-query heuristics,
\* perception, planning, sandbox: perception is called with the output of the
\* pre-query heuristics, planning only after perception selected some tool,
\* the sandbox only with a plan that has a solve signature and once per
\* attempt, and the post-result heuristics run (their output enters the
\* override) only on a sandbox result that asks for further processing.
C27_CallStep ==
    /\ (pc' = "perception" /\ pc # "perception") =>
           /\ pc = "while"
           /\ current_input' = run_pre_query(heuristics, InputText)
           /\ perception_calls' = perception_calls + 1
    /\ (pc' = "plan" /\ pc # "plan") =>
           /\ pc = "perception"
           /\ selected_tools' # {}
           /\ plan_calls' = plan_calls + 1
    /\ (pc' = "sandbox" /\ pc # "sandbox") =>
           /\ pc = "plan"
           /\ MatchesSolve(plan')
           /\ sandbox_calls' = sandbox_calls + 1
    /\ perception_calls' # perception_calls => pc' = "perception" /\ pc = "while"
    /\ plan_calls' # plan_calls => pc' = "plan" /\ pc = "perception"
    /\ sandbox_calls' # sandbox_calls => pc' = "sandbox" /\ pc = "plan"
    /\ user_input_override' # user_input_override =>
           /\ pc = "sandbox"
           /\ result'.isstr /\ IsForward(result'.text)
           /\ user_input_override' =
                  Some(Frame(user_input,
                             run_post_result(heuristics, user_input,
                                             ForwardContent(result'.text))))

C27_CallCounts ==
    /\ sandbox_calls <= plan_calls
    /\ plan_calls <= perception_calls
    /\ perception_calls - plan_calls <= step + 1
    /\ pc = "plan" => selected_tools # {}
    /\ pc = "sandbox" => selected_tools # {} /\ MatchesSolve(plan)

C27_FixedCallOrder ==
    /\ [][C27_CallStep]_vars
    /\ [](C27_CallCounts)

\* One attempt went through all four calls and the post-result heuristics.
C27_Witness ==
    /\ pc = "for"
    /\ perception_calls = 1 /\ plan_calls = 1 /\ sandbox_calls = 1
    /\ selected_tools # {}
    /\ MatchesSolve(plan)
    /\ result.isstr /\ IsForward(result.text)
    /\ user_input_override =
           Some(Frame(user_input,
                      run_post_result(heuristics, user_input, ForwardContent(result.text))))


\* C28: a run that returns yields status done and a result that starts with
\* FINAL_ANSWER: and is context.final_answer at that moment; the text is
\* written by the returning step itself (the max-steps literal, or the text
\* made of the last sandbox result), so the answer an earlier failed attempt
\* recorded is never what is returned.
C28_Returned ==
    pc = "returned" =>
        /\ IsSet(ret)
        /\ Get(ret).status = "done"
        /\ StartsWith(Get(ret).result, FINAL)
        /\ final_answer = Some(Get(ret).result)
        /\ (~result.isstr \/ IsSandboxError(result.text)) =>
               Get(ret).result = MaxStepsReached

C28_ReturnStep ==
    (pc' = "returned" /\ pc # "returned") =>
        /\ final_answer' = Some(Get(ret').result)
        /\ \/ pc = "for" /\ Get(ret').result = MaxStepsReached
           \/ /\ pc = "sandbox" /\ result'.isstr
              /\ Get(ret').result \in {result'.text, AsFinalAnswer(result'.text)}

C28_ReturnsCurrentAnswer ==
    /\ [](C28_Returned)
    /\ [][C28_ReturnStep]_vars

\* The run returned the max-steps literal after a failed execution had
\* recorded its answer.
C28_Witness ==
    /\ pc = "returned"
    /\ ret = Done(MaxStepsReached)
    /\ final_answer = Some(MaxStepsReached)
    /\ \E i \in 1..Len(subtasks) : subtasks[i].status = "failure"
    /\ result.isstr /\ IsSandboxError(result.text)


\* C29: the planner is given the override when one is set and the original
\* task input otherwise, whatever the pre-query heuristics returned; the
\* text the pre-query heuristics return goes to perception and changes
\* neither the task input nor the override.
PlannerText ==
    IF IsSet(user_input_override) /\ Get(user_input_override) # <<>>
    THEN Get(user_input_override) ELSE user_input

C29_PlannerStep ==
    /\ (pc = "while" /\ pc' = "perception") =>
           /\ current_input' = Engine_run(heuristics, PlannerText, None)
           /\ UNCHANGED <<user_input, user_input_override, current_user_input>>
    /\ (pc = "perception" /\ pc' = "plan") =>
           /\ current_user_input' = PlannerText
           /\ UNCHANGED <<user_input, user_input_override, current_input>>
    /\ current_user_input' # current_user_input => pc = "perception" /\ pc' = "plan"

C29_PlannerGetsUnrewrittenText == [][C29_PlannerStep]_vars

\* The pre-query heuristics rewrote the text and the planner was given the
\* task input.
C29_Witness ==
    /\ pc = "plan"
    /\ ~IsSet(user_input_override)
    /\ current_input # user_input
    /\ current_user_input = user_input


\* C30: every forward replaces the override with the framing of the original
\* task input and the payload of that forward (as the post-result heuristics
\* return it); the override therefore holds one payload, the latest, and no
\* earlier override; the task input never changes.
FrameMarker == "Your last tool produced this result:"

ForwardPayloads ==
    { run_post_result(heuristics, user_input, ForwardContent(Strip(r.text))) :
        r \in {r \in SandboxResults : r.isstr /\ IsForward(Strip(r.text))} }

C30_ForwardStep ==
    /\ user_input' = user_input
    /\ (pc = "sandbox" /\ pc' # "raised" /\ result'.isstr /\ IsForward(result'.text)) =>
           user_input_override' =
               Some(Frame(user_input,
                          run_post_result(heuristics, user_input,
                                          ForwardContent(result'.text))))
    /\ ~(pc = "sandbox" /\ pc' # "raised" /\ result'.isstr /\ IsForward(result'.text)) =>
           user_input_override' = user_input_override

C30_OnePayload ==
    IsSet(user_input_override) =>
        /\ Cardinality(Occurrences(Get(user_input_override), FrameMarker)) = 1
        /\ Cardinality(Occurrences(Get(user_input_override), "Original user task:")) = 1
        /\ \E payload \in ForwardPayloads :
               user_input_override = Some(Frame(user_input, payload))

C30_OverrideReplacedWholesale ==
    /\ [][C30_ForwardStep]_vars
    /\ [](C30_OnePayload)

\* Two forwards: the override holds the payload of the second and nothing else.
C30_Witness ==
    /\ pc = "for"
    /\ step = 1
    /\ sandbox_calls = 2
    /\ memory = <<>>
    /\ Len(subtasks) = 2
    /\ heuristics = <<>>
    /\ result.isstr /\ IsForward(result.text)
    /\ user_input_override = Some(Frame(user_input, <<"7">>))

====
